---- MODULE Spec2Model ----
(***************************************************************************)
(* A model of src/src/gedcom_parser.py: GEDCOMParser (file reading, the    *)
(* individual pass, the family pass, relationship resolution, the value    *)
(* parse() returns) and GenealogyQueryEngine.get_family_tree.              *)
(*                                                                         *)
(* Python str values are TLA+ strings; characters are the one-character    *)
(* substrings SubSeq(s, i, i).  Python dicts whose iteration order is      *)
(* observable (individuals, families) are ordered maps: sequences of       *)
(* <<key, value>> pairs with unique keys.  The small dicts birth, death    *)
(* and marriage are functions whose domain is the set of keys present.     *)
(* Python's None is modelled by "" where the code only tests truthiness.   *)
(***************************************************************************)
EXTENDS Integers, Sequences, FiniteSets, TLC

(***************************************************************************)
(* Python string primitives used by the parser                             *)
(***************************************************************************)

\* The whitespace characters str.strip() removes, among the model's alphabet.
Whitespace == {" ", "\t", "\n"}

Char(s, i) == SubSeq(s, i, i)

RECURSIVE LStrip(_, _)
LStrip(s, chars) ==
    IF Len(s) > 0 /\ Char(s, 1) \in chars
    THEN LStrip(SubSeq(s, 2, Len(s)), chars)
    ELSE s

RECURSIVE RStrip(_, _)
RStrip(s, chars) ==
    IF Len(s) > 0 /\ Char(s, Len(s)) \in chars
    THEN RStrip(SubSeq(s, 1, Len(s) - 1), chars)
    ELSE s

\* s.strip(): whitespace removed at both ends
Strip(s) == RStrip(LStrip(s, Whitespace), Whitespace)

\* s.strip('/')
StripChars(s, chars) == RStrip(LStrip(s, chars), chars)

\* c in s, for a one-character c
HasChar(s, c) == \E i \in 1..Len(s) : Char(s, i) = c

\* s.replace(c, ''), for a one-character c
RECURSIVE RemoveChar(_, _)
RemoveChar(s, c) ==
    IF Len(s) = 0 THEN ""
    ELSE IF Char(s, 1) = c THEN RemoveChar(SubSeq(s, 2, Len(s)), c)
    ELSE Char(s, 1) \o RemoveChar(SubSeq(s, 2, Len(s)), c)

\* index of the first occurrence of the character c in s, 0 when absent
RECURSIVE FindChar(_, _, _)
FindChar(s, c, from) ==
    IF from > Len(s) THEN 0
    ELSE IF Char(s, from) = c THEN from
    ELSE FindChar(s, c, from + 1)

\* s.split(sep, maxsplit) for a one-character sep; maxsplit = -1 is unlimited
RECURSIVE SplitMax(_, _, _)
SplitMax(s, sep, maxsplit) ==
    LET k == FindChar(s, sep, 1)
    IN  IF maxsplit = 0 \/ k = 0 THEN <<s>>
        ELSE <<SubSeq(s, 1, k - 1)>>
             \o SplitMax(SubSeq(s, k + 1, Len(s)), sep,
                         IF maxsplit < 0 THEN maxsplit ELSE maxsplit - 1)

\* sep.join(parts)
RECURSIVE Join(_, _)
Join(parts, sep) ==
    IF Len(parts) = 0 THEN ""
    ELSE IF Len(parts) = 1 THEN parts[1]
    ELSE parts[1] \o sep \o Join(Tail(parts), sep)

Digits == {"0", "1", "2", "3", "4", "5", "6", "7", "8", "9"}

DigitVal(c) ==
    CASE c = "0" -> 0 [] c = "1" -> 1 [] c = "2" -> 2 [] c = "3" -> 3
      [] c = "4" -> 4 [] c = "5" -> 5 [] c = "6" -> 6 [] c = "7" -> 7
      [] c = "8" -> 8 [] c = "9" -> 9

\* the digits of an int() literal: digits, single underscores between digits
RECURSIVE IsDigitString(_)
IsDigitString(s) ==
    /\ Len(s) > 0
    /\ Char(s, 1) \in Digits
    /\ \/ Len(s) = 1
       \/ IsDigitString(SubSeq(s, 2, Len(s)))
       \/ /\ Len(s) > 2
          /\ Char(s, 2) = "_"
          /\ IsDigitString(SubSeq(s, 3, Len(s)))

RECURSIVE DigitsValue(_, _)
DigitsValue(s, acc) ==
    IF Len(s) = 0 THEN acc
    ELSE IF Char(s, 1) = "_" THEN DigitsValue(SubSeq(s, 2, Len(s)), acc)
    ELSE DigitsValue(SubSeq(s, 2, Len(s)), 10 * acc + DigitVal(Char(s, 1)))

\* int(s): surrounding whitespace and one sign are accepted; ok = FALSE is
\* ValueError
PyInt(s) ==
    LET t == Strip(s)
        signed == Len(t) > 0 /\ Char(t, 1) \in {"+", "-"}
        body == IF signed THEN SubSeq(t, 2, Len(t)) ELSE t
    IN  IF IsDigitString(body)
        THEN [ok |-> TRUE,
              val |-> IF signed /\ Char(t, 1) = "-"
                      THEN 0 - DigitsValue(body, 0)
                      ELSE DigitsValue(body, 0)]
        ELSE [ok |-> FALSE, val |-> 0]

(***************************************************************************)
(* Python dict primitives                                                  *)
(***************************************************************************)

\* {} : the dict with no key
EmptyDict == [k \in {} |-> ""]

\* d[k] = v on a small dict (birth, death, marriage, a record's own keys)
SetKey(d, k, v) == (k :> v) @@ d

\* bool(s) for a str
Truthy(s) == s /= ""

\* bool(d) for a dict
TruthyDict(d) == DOMAIN d /= {}

\* individuals and families: sequences of <<key, value>>, in insertion order
MapKeys(m) == {m[n][1] : n \in 1..Len(m)}

MapHas(m, k) == k \in MapKeys(m)

MapGet(m, k) == m[CHOOSE n \in 1..Len(m) : m[n][1] = k][2]

\* a variant that keeps the value a present key already has
MapPut_KeepFirst(m, k, v) ==
    IF k \in {m[n][1] : n \in 1..Len(m)} THEN m ELSE Append(m, <<k, v>>)

\* m[k] = v : a present key keeps its place, a new key is appended
MapPut(m, k, v) ==
    IF MapHas(m, k)
    THEN [n \in 1..Len(m) |-> IF m[n][1] = k THEN <<k, v>> ELSE m[n]]
    ELSE Append(m, <<k, v>>)

(***************************************************************************)
(* GEDCOMParser._read_file                                                 *)
(***************************************************************************)

\* [line.strip() for line in raw_lines if line.strip()]
RECURSIVE NormalizeLines(_)
NormalizeLines(raw_lines) ==
    IF Len(raw_lines) = 0 THEN <<>>
    ELSE IF Strip(Head(raw_lines)) /= ""
    THEN <<Strip(Head(raw_lines))>> \o NormalizeLines(Tail(raw_lines))
    ELSE NormalizeLines(Tail(raw_lines))

\* a variant that keeps the lines the failed read delivered
LinesOnReadError_KeepRead(raw_lines) == NormalizeLines(raw_lines)

\* parse(): the except branch around _read_file() sets self.lines = []
LinesOnReadError(raw_lines) == <<>>

(***************************************************************************)
(* The line format "level tag [value]", as both passes split it            *)
(***************************************************************************)

\* a variant that takes the level without its sign
Tokenize_LevelWithoutSign(line) ==
    LET l == Strip(line)
        parts == SplitMax(l, " ", 2)
        lvl == PyInt(parts[1])
    IN  IF l = "" \/ Len(parts) < 2 \/ ~lvl.ok
        THEN [skip |-> TRUE, level |-> 0, tag |-> "", value |-> "", nparts |-> Len(parts)]
        ELSE [skip |-> FALSE,
              level |-> IF lvl.val < 0 THEN 0 - lvl.val ELSE lvl.val,
              tag |-> parts[2],
              value |-> IF Len(parts) > 2 THEN parts[3] ELSE "",
              nparts |-> Len(parts)]

\* skip = TRUE is one of the three `continue`s: blank line, fewer than two
\* parts, int(parts[0]) raising ValueError
Tokenize(line) ==
    LET l == Strip(line)
        parts == SplitMax(l, " ", 2)
        lvl == PyInt(parts[1])
    IN  IF l = "" \/ Len(parts) < 2 \/ ~lvl.ok
        THEN [skip |-> TRUE, level |-> 0, tag |-> "", value |-> "", nparts |-> Len(parts)]
        ELSE [skip |-> FALSE,
              level |-> lvl.val,
              tag |-> parts[2],
              value |-> IF Len(parts) > 2 THEN parts[3] ELSE "",
              nparts |-> Len(parts)]

(***************************************************************************)
(* GEDCOMParser._extract_individuals                                       *)
(***************************************************************************)

\* a variant that removes only the '@' characters
IndividualId_KeepI(tag) == RemoveChar(tag, "@")

\* tag.replace('@', '').replace('I', '').replace('@', '')
IndividualId(tag) == RemoveChar(RemoveChar(RemoveChar(tag, "@"), "I"), "@")

\* value.replace('@', '').replace('F', '') if value else ''
FamilyRef(value) == IF value /= "" THEN RemoveChar(RemoveChar(value, "@"), "F") ELSE ""

\* value.replace('@', '').replace('I', '') if value else ''
IndividualRef(value) == IF value /= "" THEN RemoveChar(RemoveChar(value, "@"), "I") ELSE ""

\* [part.strip() for part in cleaned_name.split('/') if part.strip()]
RECURSIVE StrippedParts(_)
StrippedParts(parts) ==
    IF Len(parts) = 0 THEN <<>>
    ELSE IF Strip(Head(parts)) /= ""
    THEN <<Strip(Head(parts))>> \o StrippedParts(Tail(parts))
    ELSE StrippedParts(Tail(parts))

\* a variant that only removes the surrounding slashes
NormalizeName_StripOnly(value) == StripChars(value, {"/"})

\* the NAME branch: the value stored in current_record['name']
NormalizeName(value) ==
    IF value /= ""
    THEN LET cleaned_name == StripChars(value, {"/"})
         IN  IF HasChar(cleaned_name, "/")
             THEN Join(StrippedParts(SplitMax(cleaned_name, "/", -1)), " ")
             ELSE cleaned_name
    ELSE ""

NewIndividual(id) ==
    [id |-> id, name |-> "", gender |-> "", birth |-> EmptyDict, death |-> EmptyDict,
     occupation |-> "", notes |-> <<>>, families_as_child |-> <<>>,
     families_as_spouse |-> <<>>, media |-> <<>>]

\* the locals of _extract_individuals before its loop, with the map it fills
IndividualPassStart(individuals0) ==
    [individuals |-> individuals0, current_individual |-> "",
     current_record |-> EmptyDict, current_section |-> "", individual_count |-> 0]

\* a variant without the test that the id is non-empty
CommitIndividual_Unguarded(st) ==
    [st EXCEPT !.individuals = MapPut(@, st.current_individual, st.current_record),
               !.individual_count = @ + 1]

\* "Save previous individual" / "Save last individual"
CommitIndividual(st) ==
    IF Truthy(st.current_individual) /\ TruthyDict(st.current_record)
    THEN [st EXCEPT !.individuals = MapPut(@, st.current_individual, st.current_record),
                    !.individual_count = @ + 1]
    ELSE st

\* a variant in which a level-1 line that opens no section closes the open one
IndividualLevel1_ClosesSection(st, tag, value) ==
    LET r == st.current_record
        closed == [st EXCEPT !.current_section = ""]
    IN  CASE tag = "NAME" -> [closed EXCEPT !.current_record = [r EXCEPT !.name = NormalizeName(value)]]
          [] tag = "SEX"  -> [closed EXCEPT !.current_record = [r EXCEPT !.gender = value]]
          [] tag = "OCCU" -> [closed EXCEPT !.current_record = [r EXCEPT !.occupation = value]]
          [] tag = "BIRT" -> [st EXCEPT !.current_section = "birth"]
          [] tag = "DEAT" -> [st EXCEPT !.current_section = "death"]
          [] tag = "FAMC" ->
                IF FamilyRef(value) /= ""
                THEN [closed EXCEPT !.current_record =
                         [r EXCEPT !.families_as_child = Append(@, FamilyRef(value))]]
                ELSE closed
          [] tag = "FAMS" ->
                IF FamilyRef(value) /= ""
                THEN [closed EXCEPT !.current_record =
                         [r EXCEPT !.families_as_spouse = Append(@, FamilyRef(value))]]
                ELSE closed
          [] tag = "OBJE" -> [st EXCEPT !.current_section = "media"]
          [] tag = "NOTE" ->
                [st EXCEPT !.current_section = "notes",
                           !.current_record =
                               IF value /= "" THEN [r EXCEPT !.notes = Append(@, value)]
                               ELSE r]
          [] OTHER -> closed

\* the level-1 branch ("Individual data")
IndividualLevel1(st, tag, value) ==
    LET r == st.current_record
    IN  CASE tag = "NAME" -> [st EXCEPT !.current_record = [r EXCEPT !.name = NormalizeName(value)]]
          [] tag = "SEX"  -> [st EXCEPT !.current_record = [r EXCEPT !.gender = value]]
          [] tag = "OCCU" -> [st EXCEPT !.current_record = [r EXCEPT !.occupation = value]]
          [] tag = "BIRT" -> [st EXCEPT !.current_section = "birth"]
          [] tag = "DEAT" -> [st EXCEPT !.current_section = "death"]
          [] tag = "FAMC" ->
                IF FamilyRef(value) /= ""
                THEN [st EXCEPT !.current_record =
                         [r EXCEPT !.families_as_child = Append(@, FamilyRef(value))]]
                ELSE st
          [] tag = "FAMS" ->
                IF FamilyRef(value) /= ""
                THEN [st EXCEPT !.current_record =
                         [r EXCEPT !.families_as_spouse = Append(@, FamilyRef(value))]]
                ELSE st
          [] tag = "OBJE" -> [st EXCEPT !.current_section = "media"]
          [] tag = "NOTE" ->
                [st EXCEPT !.current_section = "notes",
                           !.current_record =
                               IF value /= "" THEN [r EXCEPT !.notes = Append(@, value)]
                               ELSE r]
          [] OTHER -> st

IndividualLevel2(st, tag, value) ==
    LET r == st.current_record
        sec == st.current_section
    IN  IF sec \in {"birth", "death"}
        THEN CASE tag = "DATE" ->
                    [st EXCEPT !.current_record = [r EXCEPT ![sec] = SetKey(@, "date", value)]]
               [] tag = "PLAC" ->
                    [st EXCEPT !.current_record = [r EXCEPT ![sec] = SetKey(@, "place", value)]]
               [] OTHER -> st
        ELSE IF sec = "media"
        THEN IF tag = "FILE"
             THEN [st EXCEPT !.current_record = [r EXCEPT !.media = Append(@, value)]]
             ELSE st
        ELSE IF sec = "notes"
        THEN IF tag \in {"CONT", "CONC", "NOTE"} /\ value /= ""
             THEN [st EXCEPT !.current_record = [r EXCEPT !.notes = Append(@, value)]]
             ELSE st
        ELSE st

\* one iteration of the loop over self.lines
IndividualStep(st, line) ==
    LET t == Tokenize(line)
    IN  IF t.skip THEN st
        ELSE IF t.level = 0 /\ t.nparts >= 3 /\ t.value = "INDI"
        THEN [CommitIndividual(st) EXCEPT
                 !.current_individual = IndividualId(t.tag),
                 !.current_record = NewIndividual(IndividualId(t.tag)),
                 !.current_section = ""]
        ELSE IF Truthy(st.current_individual) /\ t.level = 1
        THEN IndividualLevel1(st, t.tag, t.value)
        ELSE IF Truthy(st.current_individual) /\ t.level = 2 /\ Truthy(st.current_section)
        THEN IndividualLevel2(st, t.tag, t.value)
        ELSE st


\* the loop of _extract_individuals over lines[from..], started in state st
RECURSIVE IndividualLoop(_, _, _)
IndividualLoop(st, lines0, from) ==
    IF from > Len(lines0) THEN st
    ELSE IndividualLoop(IndividualStep(st, lines0[from]), lines0, from + 1)

\* _extract_individuals as a whole: self.individuals after the call
ExtractIndividuals(individuals0, lines0) ==
    CommitIndividual(IndividualLoop(IndividualPassStart(individuals0), lines0, 1)).individuals

(***************************************************************************)
(* GEDCOMParser._extract_families                                          *)
(***************************************************************************)

\* a variant that removes the '@' only
FamilyId_KeepF(tag) == RemoveChar(tag, "@")

\* tag.replace('@', '').replace('F', '').replace('@', '')
FamilyId(tag) == RemoveChar(RemoveChar(RemoveChar(tag, "@"), "F"), "@")

NewFamily(id) ==
    [id |-> id, marriage |-> EmptyDict, husband |-> "", wife |-> "",
     children |-> <<>>, notes |-> <<>>, divorced |-> FALSE]

FamilyPassStart(families0) ==
    [families |-> families0, current_family |-> "",
     current_record |-> EmptyDict, family_count |-> 0]

\* "Save previous family" / "Save last family"
CommitFamily(st) ==
    IF Truthy(st.current_family) /\ TruthyDict(st.current_record)
    THEN [st EXCEPT !.families = MapPut(@, st.current_family, st.current_record),
                    !.family_count = @ + 1]
    ELSE st

FamilyLevel1(st, tag, value) ==
    LET r == st.current_record
    IN  CASE tag = "MARR" -> st
          [] tag \in {"DIV", "SEP"} -> [st EXCEPT !.current_record = [r EXCEPT !.divorced = TRUE]]
          [] tag = "HUSB" -> [st EXCEPT !.current_record = [r EXCEPT !.husband = IndividualRef(value)]]
          [] tag = "WIFE" -> [st EXCEPT !.current_record = [r EXCEPT !.wife = IndividualRef(value)]]
          [] tag = "CHIL" ->
                IF IndividualRef(value) /= ""
                THEN [st EXCEPT !.current_record =
                         [r EXCEPT !.children = Append(@, IndividualRef(value))]]
                ELSE st
          [] tag = "NOTE" ->
                IF value /= ""
                THEN [st EXCEPT !.current_record = [r EXCEPT !.notes = Append(@, value)]]
                ELSE st
          [] OTHER -> st

\* a variant that keeps a date or place the record already has
FamilyLevel2_FirstWins(st, tag, value) ==
    LET r == st.current_record
    IN  CASE tag = "DATE" /\ "date" \notin DOMAIN r.marriage ->
                [st EXCEPT !.current_record = [r EXCEPT !.marriage = SetKey(@, "date", value)]]
          [] tag = "PLAC" /\ "place" \notin DOMAIN r.marriage ->
                [st EXCEPT !.current_record = [r EXCEPT !.marriage = SetKey(@, "place", value)]]
          [] OTHER -> st

\* the level-2 branch ("Marriage details")
FamilyLevel2(st, tag, value) ==
    LET r == st.current_record
    IN  CASE tag = "DATE" ->
                [st EXCEPT !.current_record = [r EXCEPT !.marriage = SetKey(@, "date", value)]]
          [] tag = "PLAC" ->
                [st EXCEPT !.current_record = [r EXCEPT !.marriage = SetKey(@, "place", value)]]
          [] OTHER -> st

\* one iteration of the loop over self.lines
FamilyStep(st, line) ==
    LET t == Tokenize(line)
    IN  IF t.skip THEN st
        ELSE IF t.level = 0 /\ t.nparts >= 3 /\ t.value = "FAM"
        THEN [CommitFamily(st) EXCEPT
                 !.current_family = FamilyId(t.tag),
                 !.current_record = NewFamily(FamilyId(t.tag))]
        ELSE IF Truthy(st.current_family) /\ t.level = 1
        THEN FamilyLevel1(st, t.tag, t.value)
        ELSE IF Truthy(st.current_family) /\ t.level = 2
        THEN FamilyLevel2(st, t.tag, t.value)
        ELSE st

RECURSIVE FamilyLoop(_, _, _)
FamilyLoop(st, lines0, from) ==
    IF from > Len(lines0) THEN st
    ELSE FamilyLoop(FamilyStep(st, lines0[from]), lines0, from + 1)

\* _extract_families as a whole: self.families after the call
ExtractFamilies(families0, lines0) ==
    CommitFamily(FamilyLoop(FamilyPassStart(families0), lines0, 1)).families

(***************************************************************************)
(* GEDCOMParser._resolve_relationships                                     *)
(***************************************************************************)

\* a variant that looks the family up without testing that it exists
FamilyLookupRaises_Unguarded(fams, fam_id) == ~MapHas(fams, fam_id)

\* self.families[fam_id] raises KeyError for an absent key; both lookups are
\* under "if fam_id in self.families", so neither raises
FamilyLookupRaises(fams, fam_id) == FALSE

\* a variant that appends the wife before the husband
ParentsFrom_WifeFirst(fams, fam_id) ==
    IF MapHas(fams, fam_id)
    THEN LET family == MapGet(fams, fam_id)
         IN  (IF Truthy(family.wife) THEN <<family.wife>> ELSE <<>>)
             \o (IF Truthy(family.husband) THEN <<family.husband>> ELSE <<>>)
    ELSE <<>>

\* the parents one families_as_child entry contributes
ParentsFrom(fams, fam_id) ==
    IF MapHas(fams, fam_id)
    THEN LET family == MapGet(fams, fam_id)
         IN  (IF Truthy(family.husband) THEN <<family.husband>> ELSE <<>>)
             \o (IF Truthy(family.wife) THEN <<family.wife>> ELSE <<>>)
    ELSE <<>>

\* a variant that takes whoever in the family is not the individual
SpouseFrom_AnyOther(fams, ind_id, fam_id) ==
    IF MapHas(fams, fam_id)
    THEN LET family == MapGet(fams, fam_id)
         IN  IF family.husband /= ind_id /\ Truthy(family.husband) THEN <<family.husband>>
             ELSE IF family.wife /= ind_id /\ Truthy(family.wife) THEN <<family.wife>>
             ELSE <<>>
    ELSE <<>>

\* the spouse one families_as_spouse entry contributes to individual ind_id
SpouseFrom(fams, ind_id, fam_id) ==
    IF MapHas(fams, fam_id)
    THEN LET family == MapGet(fams, fam_id)
         IN  IF family.husband = ind_id /\ Truthy(family.wife) THEN <<family.wife>>
             ELSE IF family.wife = ind_id /\ Truthy(family.husband) THEN <<family.husband>>
             ELSE <<>>
    ELSE <<>>

\* the children one families_as_spouse entry contributes
ChildrenFrom(fams, fam_id) ==
    IF MapHas(fams, fam_id) THEN MapGet(fams, fam_id).children ELSE <<>>

\* the loop "for fam_id in individual['families_as_child']"
RECURSIVE CollectParents(_, _)
CollectParents(fams, fam_ids) ==
    IF Len(fam_ids) = 0 THEN <<>>
    ELSE ParentsFrom(fams, Head(fam_ids)) \o CollectParents(fams, Tail(fam_ids))

\* the loop "for fam_id in individual['families_as_spouse']", spouse part
RECURSIVE CollectSpouse(_, _, _)
CollectSpouse(fams, ind_id, fam_ids) ==
    IF Len(fam_ids) = 0 THEN <<>>
    ELSE SpouseFrom(fams, ind_id, Head(fam_ids)) \o CollectSpouse(fams, ind_id, Tail(fam_ids))

\* the loop "for fam_id in individual['families_as_spouse']", children part
RECURSIVE CollectChildren(_, _)
CollectChildren(fams, fam_ids) ==
    IF Len(fam_ids) = 0 THEN <<>>
    ELSE ChildrenFrom(fams, Head(fam_ids)) \o CollectChildren(fams, Tail(fam_ids))

\* whether the iteration for this individual raises
ResolveRaises(fams, individual) ==
    \/ \E n \in 1..Len(individual.families_as_child) :
          FamilyLookupRaises(fams, individual.families_as_child[n])
    \/ \E n \in 1..Len(individual.families_as_spouse) :
          FamilyLookupRaises(fams, individual.families_as_spouse[n])

\* a variant that appends to the lists the individual already has
ResolveIndividual_Accumulates(fams, ind_id, individual) ==
    LET had(key) == IF key \in DOMAIN individual THEN individual[key] ELSE <<>>
        parents == had("parents")
                     \o (LET RECURSIVE P(_)
                              P(ids) ==
                                 IF Len(ids) = 0 THEN <<>>
                                 ELSE ParentsFrom(fams, Head(ids)) \o P(Tail(ids))
                          IN  P(individual.families_as_child))
        spouse == had("spouse")
                     \o (LET RECURSIVE S(_)
                              S(ids) ==
                                 IF Len(ids) = 0 THEN <<>>
                                 ELSE SpouseFrom(fams, ind_id, Head(ids)) \o S(Tail(ids))
                          IN  S(individual.families_as_spouse))
        children == had("children")
                     \o (LET RECURSIVE C(_)
                              C(ids) ==
                                 IF Len(ids) = 0 THEN <<>>
                                 ELSE ChildrenFrom(fams, Head(ids)) \o C(Tail(ids))
                          IN  C(individual.families_as_spouse))
    IN  [key \in DOMAIN individual \cup {"parents", "spouse", "children"} |->
            CASE key = "parents" -> parents
              [] key = "spouse" -> spouse
              [] key = "children" -> children
              [] OTHER -> individual[key]]

\* one iteration of the first loop over self.individuals.items()
ResolveIndividual(fams, ind_id, individual) ==
    SetKey(SetKey(SetKey(individual,
        "parents", CollectParents(fams, individual.families_as_child)),
        "spouse", CollectSpouse(fams, ind_id, individual.families_as_spouse)),
        "children", CollectChildren(fams, individual.families_as_spouse))

\* [p for p in ids if p]
RECURSIVE DropFalsy(_)
DropFalsy(ids) ==
    IF Len(ids) = 0 THEN <<>>
    ELSE IF Truthy(Head(ids)) THEN <<Head(ids)>> \o DropFalsy(Tail(ids))
    ELSE DropFalsy(Tail(ids))

\* one iteration of the second loop ("Clean up empty lists")
CleanIndividual(individual) ==
    [individual EXCEPT !.parents = DropFalsy(@),
                       !.spouse = DropFalsy(@),
                       !.children = DropFalsy(@)]

\* the second loop as a whole
CleanUp(inds) == [n \in 1..Len(inds) |-> <<inds[n][1], CleanIndividual(inds[n][2])>>]

\* _resolve_relationships as a whole
ResolveRelationships(inds, fams) ==
    CleanUp([n \in 1..Len(inds) |->
                <<inds[n][1], ResolveIndividual(fams, inds[n][1], inds[n][2])>>])

(***************************************************************************)
(* GEDCOMParser.parse: the value returned                                  *)
(***************************************************************************)

\* a variant that reports the passes' counters instead of the maps' sizes
Summary_Counters(inds, fams, individual_count, family_count) ==
    [total_individuals |-> individual_count, total_families |-> family_count]

\* "summary"; parsed_at, a timestamp, is left out
Summary(inds, fams, individual_count, family_count) ==
    [total_individuals |-> Len(inds), total_families |-> Len(fams)]

ParseResult(inds, fams, individual_count, family_count) ==
    [individuals |-> inds, families |-> fams,
     summary |-> Summary(inds, fams, individual_count, family_count)]

\* the value returned by the outer "except Exception as e" of parse()
FallbackResult(e) ==
    [individuals |-> <<>>, families |-> <<>>,
     summary |-> [total_individuals |-> 0, total_families |-> 0, error |-> e]]


(***************************************************************************)
(* GenealogyQueryEngine: find_person, get_person_details,                  *)
(* search_by_location, get_statistics                                      *)
(***************************************************************************)

UpperCase == "ABCDEFGHIJKLMNOPQRSTUVWXYZ"
LowerCase == "abcdefghijklmnopqrstuvwxyz"

\* str.lower() on one character of the model's alphabet (ASCII)
LowerChar(c) ==
    IF \E i \in 1..Len(UpperCase) : Char(UpperCase, i) = c
    THEN Char(LowerCase, CHOOSE i \in 1..Len(UpperCase) : Char(UpperCase, i) = c)
    ELSE c

\* str.lower()
RECURSIVE Lower(_)
Lower(s) ==
    IF Len(s) = 0 THEN ""
    ELSE LowerChar(Char(s, 1)) \o Lower(SubSeq(s, 2, Len(s)))

\* needle in hay
Contains(hay, needle) ==
    \E i \in 0..(Len(hay) - Len(needle)) : SubSeq(hay, i + 1, i + Len(needle)) = needle

\* d.get(k, default)
DictGet(d, k, default) == IF k \in DOMAIN d THEN d[k] ELSE default

\* find_person: the loop over self.individuals.items() from entry n on
RECURSIVE FindPersonFrom(_, _, _)
FindPersonFrom(inds, query, n) ==
    IF n > Len(inds) THEN <<>>
    ELSE (IF Contains(Lower(inds[n][2].name), query) THEN <<inds[n][2]>> ELSE <<>>)
         \o FindPersonFrom(inds, query, n + 1)

\* a variant that compares the name as it is stored
FindPerson_CaseSensitive(inds, name_query) ==
    LET RECURSIVE From(_)
        From(n) ==
            IF n > Len(inds) THEN <<>>
            ELSE (IF Contains(inds[n][2].name, name_query) THEN <<inds[n][2]>> ELSE <<>>)
                 \o From(n + 1)
    IN  From(1)

FindPerson(inds, name_query) == FindPersonFrom(inds, Lower(name_query), 1)

\* search_by_location: the loop from entry n on
RECURSIVE SearchByLocationFrom(_, _, _)
SearchByLocationFrom(inds, query, n) ==
    IF n > Len(inds) THEN <<>>
    ELSE LET person == inds[n][2]
             birth_place == Lower(DictGet(person.birth, "place", ""))
             death_place == Lower(DictGet(person.death, "place", ""))
         IN  (IF Contains(birth_place, query) \/ Contains(death_place, query)
              THEN <<person>> ELSE <<>>)
             \o SearchByLocationFrom(inds, query, n + 1)

SearchByLocation(inds, location) == SearchByLocationFrom(inds, Lower(location), 1)

\* the names of the ids that are in the individuals map, in the list's order
RECURSIVE NamesOf(_, _)
NamesOf(inds, ids) ==
    IF ids = <<>> THEN <<>>
    ELSE (IF MapHas(inds, Head(ids)) THEN <<MapGet(inds, Head(ids)).name>> ELSE <<>>)
         \o NamesOf(inds, Tail(ids))

\* a variant without .copy(): person is the stored record itself
PersonHandle_NoCopy(inds, pid) == [record |-> MapGet(inds, pid), stored |-> TRUE]

\* person = self.individuals[person_id].copy(): a new dict with the stored
\* record's keys and values; stored = FALSE says that an assignment to
\* one of its keys does not reach the stored record
PersonHandle(inds, pid) == [record |-> MapGet(inds, pid), stored |-> FALSE]

\* the three assignments of get_person_details to keys of person
WithNames(inds, person) ==
    SetKey(SetKey(SetKey(person,
        "parent_names", NamesOf(inds, person.parents)),
        "spouse_names", NamesOf(inds, person.spouse)),
        "children_names", NamesOf(inds, person.children))

\* get_person_details: found = FALSE is the return of None; individuals is the
\* map after the call
PersonDetails(inds, pid) ==
    IF ~MapHas(inds, pid)
    THEN [found |-> FALSE, person |-> EmptyDict, individuals |-> inds]
    ELSE LET handle == PersonHandle(inds, pid)
             person == WithNames(inds, handle.record)
         IN  [found |-> TRUE, person |-> person,
              individuals |-> IF handle.stored THEN MapPut(inds, pid, person) ELSE inds]

\* str(n) of an integer
RECURSIVE NatToStr(_)
NatToStr(n) ==
    IF n < 10 THEN Char("0123456789", n + 1)
    ELSE NatToStr(n \div 10) \o Char("0123456789", (n % 10) + 1)

IntToStr(n) == IF n < 0 THEN "-" \o NatToStr(0 - n) ELSE NatToStr(n)

\* d[k] = d.get(k, 0) + 1 on an ordered dict
CountKey(d, k) == MapPut(d, k, (IF MapHas(d, k) THEN MapGet(d, k) ELSE 0) + 1)

\* a variant that counts every code under its own key
CountGender_OwnBucket(gender_distribution, gender) == CountKey(gender_distribution, gender)

\* "Gender stats": a key of the buckets is counted there, anything else in Unknown
CountGender(gender_distribution, gender) ==
    IF MapHas(gender_distribution, gender)
    THEN CountKey(gender_distribution, gender)
    ELSE CountKey(gender_distribution, "Unknown")

\* a variant that takes a present but empty date for a death date
IsLiving_AbsentOnly(person) == "date" \notin DOMAIN person.death

\* "Living people (no death date)": not person['death'].get('date')
IsLiving(person) == ~Truthy(DictGet(person.death, "date", ""))

\* "Birth century": the key to count, "" when there is none
CenturyKey(person) ==
    LET birth_date == DictGet(person.birth, "date", "")
    IN  IF Truthy(birth_date) /\ Len(birth_date) >= 4
        THEN LET year == PyInt(SubSeq(birth_date, Len(birth_date) - 3, Len(birth_date)))
             IN  IF year.ok
                 THEN IntToStr((year.val \div 100) + 1) \o "th century"
                 ELSE ""
        ELSE ""

\* one iteration of the loop of get_statistics
StatisticsStep(stats, person) ==
    LET occ == DictGet(person, "occupation", "")
        century == CenturyKey(person)
    IN  [stats EXCEPT
            !.gender_distribution =
                CountGender(@, DictGet(person, "gender", "Unknown")),
            !.occupation_distribution = IF Truthy(occ) THEN CountKey(@, occ) ELSE @,
            !.century_distribution = IF century /= "" THEN CountKey(@, century) ELSE @,
            !.living_people = IF IsLiving(person) THEN @ + 1 ELSE @]

RECURSIVE StatisticsLoop(_, _, _)
StatisticsLoop(stats, inds, n) ==
    IF n > Len(inds) THEN stats
    ELSE StatisticsLoop(StatisticsStep(stats, inds[n][2]), inds, n + 1)

\* get_statistics
Statistics(inds, fams) ==
    StatisticsLoop(
        [total_individuals |-> Len(inds),
         total_families |-> Len(fams),
         gender_distribution |-> <<<<"M", 0>>, <<"F", 0>>, <<"Unknown", 0>>>>,
         occupation_distribution |-> <<>>,
         century_distribution |-> <<>>,
         living_people |-> 0],
        inds, 1)

(***************************************************************************)
(* Inputs                                                                  *)
(***************************************************************************)

\* bounds of the model
MaxLines == 3
MaxNameLen == 4

\* f.readlines() keeps each line's terminator
RawLines(texts) == [n \in 1..Len(texts) |-> texts[n] \o "\n"]

\* all sequences over S of length at most n
RECURSIVE SeqsUpTo(_, _)
SeqsUpTo(S, n) ==
    IF n = 0 THEN {<<>>}
    ELSE SeqsUpTo(S, n - 1) \cup {Append(q, e) : q \in SeqsUpTo(S, n - 1), e \in S}

\* all strings over the characters A of length at most n
RECURSIVE StringsUpTo(_, _)
StringsUpTo(A, n) ==
    IF n = 0 THEN {""}
    ELSE StringsUpTo(A, n - 1) \cup {q \o c : q \in StringsUpTo(A, n - 1), c \in A}

\* lines of a file: record starts with distinct, colliding and empty ids,
\* level-1 and level-2 lines, a line that does not tokenize, a blank line
LinePool ==
    {"0 @I1@ INDI", "0 @1@ INDI", "0 @I@ INDI", "0 @I2@ INDI", "0 @F1@ FAM",
     "1 NAME John //", "2 DATE 1900", "1 FAMS @F1@", "x", "  "}

PoolStreams == SeqsUpTo(LinePool, MaxLines)

\* one individual with a name, a sex and a birth event
ExampleTags == {"@I1@", "@I12@", "@PI3@", "@I@"}
ExampleFirst == {"John", "Al"}
ExampleSurnames == {"SMITH", "LE"}
ExampleGenders == {"M", "F", ""}
ExampleDates == {"01 JAN 1900", ""}
ExamplePlaces == {"Paris", ""}

\* "2 DATE" \o " " \o value; without a value the line has two fields
Field(prefix, value) == IF value = "" THEN prefix ELSE prefix \o " " \o value

ExampleStream(tag, first, sur, g, d, p) ==
    <<"0 " \o tag \o " INDI",
      "1 NAME " \o first \o " /" \o sur \o "/",
      Field("1 SEX", g),
      "1 BIRT",
      Field("2 DATE", d),
      Field("2 PLAC", p)>>

ExampleStreams ==
    {ExampleStream(tag, first, sur, g, d, p) :
        tag \in ExampleTags, first \in ExampleFirst, sur \in ExampleSurnames,
        g \in ExampleGenders, d \in ExampleDates, p \in ExamplePlaces}

\* one individual whose NAME line carries any value over letters, spaces, slashes
NameValues == StringsUpTo({"a", " ", "/"}, MaxNameLen)

NameStream(v) == <<"0 @I1@ INDI", "1 NAME " \o v>>

NameStreams == {NameStream(v) : v \in NameValues}

Inputs == {RawLines(t) : t \in PoolStreams \cup ExampleStreams \cup NameStreams}

\* a family file: individual 1 with FAMC and FAMS references (family 9 does not
\* exist), individuals 2 and 3, family 1 with any husband, wife and children
\* (individual 8 does not exist), and family 2 or not
MaxRefs == 2

FamilyRefs == {"@F1@", "@F2@", "@F9@"}
Husbands == {"", "@I1@", "@I2@"}
Wives == {"", "@I1@", "@I3@"}
ChildLists == {<<>>, <<"@I3@", "@I8@">>}

TaggedLines(prefix, values) == [n \in 1..Len(values) |-> Field(prefix, values[n])]

FamilyStream(famc, fams, husb, wife, chil, second) ==
    <<"0 @I1@ INDI">> \o TaggedLines("1 FAMC", famc) \o TaggedLines("1 FAMS", fams)
    \o <<"0 @I2@ INDI", "1 FAMC @F1@", "0 @I3@ INDI", "1 FAMS @F2@">>
    \o <<"0 @F1@ FAM", Field("1 HUSB", husb), Field("1 WIFE", wife)>>
    \o TaggedLines("1 CHIL", chil)
    \o (IF second
        THEN <<"0 @F2@ FAM", "1 HUSB @I3@", "1 WIFE @I1@", "1 CHIL @I2@">>
        ELSE <<>>)

\* the FAMC list varies beside a fixed FAMS list, and the other way round
FixedChildRefs == <<"@F9@", "@F1@">>
FixedSpouseRefs == <<"@F1@", "@F9@">>

ReferenceLists ==
    {<<famc, FixedSpouseRefs>> : famc \in SeqsUpTo(FamilyRefs, MaxRefs)}
    \cup {<<FixedChildRefs, fams>> : fams \in SeqsUpTo(FamilyRefs, MaxRefs)}

FamilyStreams ==
    {FamilyStream(refs[1], refs[2], husb, wife, chil, second) :
        refs \in ReferenceLists,
        husb \in Husbands, wife \in Wives, chil \in ChildLists, second \in BOOLEAN}

\* a family file for the tree: father 1, mother 2 and child 3 of family 1, each
\* link to family 1 there or not; family 2, if there, makes individual 1 the
\* child of the absent individual 4, and individual 3 its spouse or not
TreeStream(fatherLink, motherLink, childLink, second, spouseLink) ==
    <<"0 @I1@ INDI">>
    \o (IF fatherLink THEN <<"1 FAMS @F1@">> ELSE <<>>)
    \o (IF second THEN <<"1 FAMC @F2@">> ELSE <<>>)
    \o <<"0 @I2@ INDI">>
    \o (IF motherLink THEN <<"1 FAMS @F1@">> ELSE <<>>)
    \o <<"0 @I3@ INDI">>
    \o (IF childLink THEN <<"1 FAMC @F1@">> ELSE <<>>)
    \o (IF spouseLink THEN <<"1 FAMS @F2@">> ELSE <<>>)
    \o <<"0 @F1@ FAM", "1 HUSB @I1@", "1 WIFE @I2@", "1 CHIL @I3@">>
    \o (IF second THEN <<"0 @F2@ FAM", "1 HUSB @I4@", "1 CHIL @I1@">> ELSE <<>>)

TreeStreams ==
    {TreeStream(fatherLink, motherLink, childLink, second, spouseLink) :
        fatherLink \in BOOLEAN, motherLink \in BOOLEAN, childLink \in BOOLEAN,
        second \in BOOLEAN, spouseLink \in BOOLEAN}

\* a line of descent without cycles unless the links are there: individual 1
\* is the husband of family 1 with child 2, individual 2 the husband of family 2
\* with child 3; each child names the family it is a child of or not
DescentStream(childLink, grandchildLink) ==
    <<"0 @I1@ INDI", "1 FAMS @F1@", "0 @I2@ INDI">>
    \o (IF childLink THEN <<"1 FAMC @F1@">> ELSE <<>>)
    \o <<"1 FAMS @F2@", "0 @I3@ INDI">>
    \o (IF grandchildLink THEN <<"1 FAMC @F2@">> ELSE <<>>)
    \o <<"0 @F1@ FAM", "1 HUSB @I1@", "1 CHIL @I2@",
         "0 @F2@ FAM", "1 HUSB @I2@", "1 CHIL @I3@">>

DescentStreams ==
    {DescentStream(childLink, grandchildLink) :
        childLink \in BOOLEAN, grandchildLink \in BOOLEAN}

\* seq with e inserted after its first k elements
InsertAt(seq, k, e) == SubSeq(seq, 1, k) \o <<e>> \o SubSeq(seq, k + 1, Len(seq))

\* an individual record and a family record
TokenBase ==
    <<"0 @I1@ INDI", "1 NAME a", "1 BIRT", "2 DATE d",
      "0 @F1@ FAM", "1 HUSB @I1@", "2 DATE m">>

\* lines with one field, and lines whose first field is no integer or a
\* negative one
SkippedLines ==
    {"x", "0", "a b c", "1.5 NAME q", "-1 NAME q", "-1 HUSB @I7@", "-2 DATE q",
     "-1 @I9@ INDI", "-1 @F9@ FAM"}

\* lines whose fields are separated by a tab or by two spaces
SeparatorLines == {"0\t@I2@\tINDI", "1  NAME b", "1 NAME  c", "2\tDATE e"}

\* the two records with one such line anywhere
TokenStreams ==
    {InsertAt(TokenBase, k, e) : k \in 0..Len(TokenBase), e \in SkippedLines \cup SeparatorLines}

\* the number of lines after the record's first line
MaxBody == 3

\* lines of an individual record: lines that open a section, a level-1 line
\* that opens none, level-2 lines, the start of the next record
SectionPool ==
    {"1 BIRT", "1 DEAT", "1 NOTE n", "1 OBJE", "1 FAMC @F1@",
     "2 DATE d", "2 FILE f", "0 @I2@ INDI"}

\* an individual record with any lines of the pool
SectionStreams == {<<"0 @I1@ INDI">> \o body : body \in SeqsUpTo(SectionPool, MaxBody)}

\* lines that open no section
OtherLines ==
    {"1 NAME a", "1 SEX M", "1 OCCU o", "1 FAMC @F1@", "1 FAMS @F1@", "1 XYZ v",
     "0 @F1@ FAM", "0 @I@ INDI", "3 DATE x", "2 CONT c"}

\* a birth event with one of these lines before its place; a record with an
\* empty id
OtherTagStreams ==
    {<<"0 @I1@ INDI", "1 BIRT", other, "2 PLAC p">> : other \in OtherLines}
    \cup {<<"0 @I@ INDI", "1 BIRT", "2 DATE d">>}

\* lines of a family record: level-1 lines, level-2 dates and a place, the
\* start of the next record
FamilyPool ==
    {"1 MARR", "1 DIV", "1 SEP", "1 NOTE n", "2 DATE a", "2 DATE b", "2 PLAC p",
     "0 @F2@ FAM"}

\* an individual and a family record with any lines of the pool; a record
\* with an empty id; a level-2 line before any record
FamilyRecordStreams ==
    {<<"0 @I1@ INDI", "0 @F1@ FAM">> \o body : body \in SeqsUpTo(FamilyPool, MaxBody)}
    \cup {<<"0 @I1@ INDI", "0 @F@ FAM", "1 DIV", "2 DATE a">>,
          <<"0 @I1@ INDI", "1 DIV", "2 DATE a", "0 @F1@ FAM">>}

\* the number of lines after the first line of each of two records
MaxFields == 1

\* record starts whose ids collide with "0 @I1@ INDI" / "0 @F1@ FAM", or not
SecondIndividuals == {"0 @I1@ INDI", "0 @1@ INDI", "0 @I2@ INDI"}
SecondFamilies == {"0 @F1@ FAM", "0 @1@ FAM", "0 @F2@ FAM"}

IndividualFields == {"1 NAME a", "1 SEX M", "1 NOTE n", "1 FAMS @F1@"}
FamilyFields == {"1 HUSB @I1@", "1 WIFE @I2@", "1 NOTE m", "1 DIV"}

\* two individual records, or two family records, with any fields; three
\* records of which the first and the last have the same id
CollisionStreams ==
    {<<"0 @I1@ INDI">> \o first \o <<start>> \o second \o <<"0 @F1@ FAM", "1 HUSB @I1@">> :
        first \in SeqsUpTo(IndividualFields, MaxFields), start \in SecondIndividuals,
        second \in SeqsUpTo(IndividualFields, MaxFields)}
    \cup {<<"0 @I1@ INDI", "1 FAMS @F1@", "0 @F1@ FAM">> \o first \o <<start>> \o second :
            first \in SeqsUpTo(FamilyFields, MaxFields), start \in SecondFamilies,
            second \in SeqsUpTo(FamilyFields, MaxFields)}
    \cup {<<"0 @I1@ INDI", "1 NAME a", "1 BIRT", "2 DATE d", "0 @I2@ INDI", "1 NAME b",
            "0 @I1@ INDI", "1 SEX M",
            "0 @F1@ FAM", "1 HUSB @I1@", "2 DATE e", "0 @F2@ FAM", "1 DIV",
            "0 @F1@ FAM", "1 WIFE @I2@">>}

\* level-0 lines that start a record after an individual and a family record
OtherStarts == {"0 @S1@ SOUR", "0 TRLR", "0 @I2@ INDI", "0 @F2@ FAM"}

\* level-1 and level-2 lines of that record
OtherRecordLines == {"1 NOTE x", "2 DATE y", "1 DIV", "1 SEX F"}

\* an individual with a birth date, a family with a marriage date, then a
\* record of any kind with any of these lines
MixedRecordStreams ==
    {<<"0 @I1@ INDI", "1 BIRT", "2 DATE d", "0 @F1@ FAM", "1 MARR", "2 DATE m">>
        \o <<start>> \o body :
        start \in OtherStarts, body \in SeqsUpTo(OtherRecordLines, MaxBody)}

\* the length of a record's identifier
MaxTagLen == 3

\* identifiers over the characters the passes remove and one they keep
RecordTags == StringsUpTo({"@", "I", "F", "1"}, MaxTagLen)

\* an individual record and a family record with the same identifier
TagStreams ==
    {<<"0 " \o tag \o " INDI", "1 NAME a", "0 " \o tag \o " FAM", "1 HUSB @I1@">> :
        tag \in RecordTags}

\* what one individual's record can hold for the query methods: names in
\* either case, sex codes inside and outside the buckets, events with and
\* without a date or a place, an occupation
ProfileNames == {"", "John SMITH", "smith"}
ProfileGenders == {"", "M", "F", "U", "Unknown"}
ProfileEvents ==
    {<<>>,
     <<"1 DEAT">>,
     <<"1 DEAT", "2 DATE">>,
     <<"1 DEAT", "2 DATE 1950", "2 PLAC Paris">>,
     <<"1 BIRT", "2 DATE 12 MAR 1899", "2 PLAC paris">>,
     <<"1 OCCU Baker", "1 BIRT", "2 DATE 900", "1 DEAT", "2 PLAC Rome">>}

Profile(name, g, events) == <<Field("1 NAME", name), Field("1 SEX", g)>> \o events

Profiles == {Profile(name, g, events) :
                name \in ProfileNames, g \in ProfileGenders, events \in ProfileEvents}

\* the second individual's record
FixedProfiles ==
    {<<"1 NAME Ann /Smith/", "1 SEX F", "1 OCCU Baker", "1 BIRT", "2 DATE 1901">>,
     <<"1 NAME John SMITH", "1 SEX M", "1 DEAT", "2 DATE 1950", "2 PLAC PARIS">>}

\* individual 1, the husband of family 1, and its child 2, who names the family
QueryStream(first, second) ==
    <<"0 @I1@ INDI">> \o first
    \o <<"0 @I2@ INDI">> \o second
    \o <<"1 FAMC @F1@", "0 @F1@ FAM", "1 HUSB @I1@", "1 CHIL @I2@", "1 CHIL @I5@">>

QueryStreams == {QueryStream(first, second) : first \in Profiles, second \in FixedProfiles}

\* the depths get_family_tree is called with between other calls: without
\* and with expansion of the root
CallGenerations == {1, 2}

\* the arguments of find_person and search_by_location
NameQueries == {"", "smith", "SMITH", "John", "n s", "x"}
LocationQueries == {"", "paris", "Par", "rome", "x"}

\* the arguments of get_family_tree: known ids and an unknown one, depths from
\* -1 to MaxGenerations
MaxGenerations == 3
QueryIds == {"1", "2", "3", "4"}
QueryGenerations == -1..MaxGenerations

\* the depth of build_tree frames at which the model raises RecursionError
\* (sys.getrecursionlimit() in CPython, 1000 by default)
RecursionLimit == 10

(***************************************************************************)
(* State                                                                   *)
(***************************************************************************)

VARIABLES
    content,              \* the file: the lines readlines() would return
    readable,             \* FALSE: open() or the utf-8 decoding raises
    pc,                   \* the statement of parse() / get_family_tree() to run next
    lines,                \* self.lines
    individuals,          \* self.individuals
    families,             \* self.families
    line_num,             \* the index of the running loop (1-based)
    current_individual,   \* locals of _extract_individuals
    current_record,
    current_section,
    individual_count,
    current_family,       \* locals of _extract_families
    current_family_record,
    family_count,
    log,                  \* the milestones parse() has printed
    error,                \* the exception caught by the outer except of parse(), "" if none
    result,               \* what parse() returned
    person_id,            \* the arguments of get_family_tree
    generations,
    stack,                \* the frames of build_tree, innermost last
    tree,                 \* what get_family_tree returned
    returned              \* the latest call of another query method and its value

individualLocals == <<current_individual, current_record, current_section, individual_count>>
familyLocals == <<current_family, current_family_record, family_count>>
queryVars == <<person_id, generations, stack, tree, returned>>
inputVars == <<content, readable>>
vars == <<content, readable, pc, lines, individuals, families, line_num,
          current_individual, current_record, current_section, individual_count,
          current_family, current_family_record, family_count, log, error, result,
          person_id, generations, stack, tree, returned>>

\* the state of the individual pass as the operators above take it
IndividualState ==
    [individuals |-> individuals, current_individual |-> current_individual,
     current_record |-> current_record, current_section |-> current_section,
     individual_count |-> individual_count]

FamilyState ==
    [families |-> families, current_family |-> current_family,
     current_record |-> current_family_record, family_count |-> family_count]

SetIndividualState(st) ==
    /\ individuals' = st.individuals
    /\ current_individual' = st.current_individual
    /\ current_record' = st.current_record
    /\ current_section' = st.current_section
    /\ individual_count' = st.individual_count

SetFamilyState(st) ==
    /\ families' = st.families
    /\ current_family' = st.current_family
    /\ current_family_record' = st.current_record
    /\ family_count' = st.family_count

\* no query method was called yet
NoReturn == [op |-> "none"]

\* no query is running
NoQuery ==
    /\ person_id = ""
    /\ generations = 0
    /\ stack = <<>>
    /\ tree = EmptyDict
    /\ returned = NoReturn

\* GEDCOMParser(gedcom_file), then parse() is called
Init ==
    /\ content \in Inputs
    /\ readable \in BOOLEAN
    /\ pc = "read"
    /\ lines = <<>>
    /\ individuals = <<>>
    /\ families = <<>>
    /\ line_num = 1
    /\ current_individual = ""
    /\ current_record = EmptyDict
    /\ current_section = ""
    /\ individual_count = 0
    /\ current_family = ""
    /\ current_family_record = EmptyDict
    /\ family_count = 0
    /\ log = <<>>
    /\ error = ""
    /\ result = EmptyDict
    /\ NoQuery

\* GEDCOMParser(gedcom_file) for a readable file with one of the streams,
\* then parse() is called
InitWith(streams) ==
    /\ content \in {RawLines(t) : t \in streams}
    /\ readable = TRUE
    /\ pc = "read"
    /\ lines = <<>>
    /\ individuals = <<>>
    /\ families = <<>>
    /\ line_num = 1
    /\ current_individual = ""
    /\ current_record = EmptyDict
    /\ current_section = ""
    /\ individual_count = 0
    /\ current_family = ""
    /\ current_family_record = EmptyDict
    /\ family_count = 0
    /\ log = <<>>
    /\ error = ""
    /\ result = EmptyDict
    /\ NoQuery

(***************************************************************************)
(* GEDCOMParser.parse, statement by statement                              *)
(***************************************************************************)

\* self._read_file() inside its try/except, then _extract_individuals starts
ReadFile ==
    /\ pc = "read"
    /\ lines' = IF readable THEN NormalizeLines(content) ELSE LinesOnReadError(content)
    /\ log' = log \o (IF readable THEN <<"read">> ELSE <<"read", "read_error">>)
                  \o <<"individuals">>
    /\ SetIndividualState(IndividualPassStart(individuals))
    /\ line_num' = 1
    /\ pc' = "individuals"
    /\ UNCHANGED <<inputVars, families, familyLocals, error, result, queryVars>>

\* one iteration of the loop of _extract_individuals
IndividualLine ==
    /\ pc = "individuals"
    /\ line_num <= Len(lines)
    /\ SetIndividualState(IndividualStep(IndividualState, lines[line_num]))
    /\ line_num' = line_num + 1
    /\ UNCHANGED <<inputVars, pc, lines, families, familyLocals, log, error, result, queryVars>>

\* "Save last individual", then _extract_families starts
IndividualsEnd ==
    /\ pc = "individuals"
    /\ line_num > Len(lines)
    /\ SetIndividualState(CommitIndividual(IndividualState))
    /\ SetFamilyState(FamilyPassStart(families))
    /\ log' = Append(log, "families")
    /\ line_num' = 1
    /\ pc' = "families"
    /\ UNCHANGED <<inputVars, lines, error, result, queryVars>>

\* one iteration of the loop of _extract_families
FamilyLine ==
    /\ pc = "families"
    /\ line_num <= Len(lines)
    /\ SetFamilyState(FamilyStep(FamilyState, lines[line_num]))
    /\ line_num' = line_num + 1
    /\ UNCHANGED <<inputVars, pc, lines, individuals, individualLocals, log, error, result,
                   queryVars>>

\* "Save last family", then _resolve_relationships starts
FamiliesEnd ==
    /\ pc = "families"
    /\ line_num > Len(lines)
    /\ SetFamilyState(CommitFamily(FamilyState))
    /\ log' = Append(log, "resolve")
    /\ line_num' = 1
    /\ pc' = "resolve"
    /\ UNCHANGED <<inputVars, lines, individuals, individualLocals, error, result, queryVars>>

\* one iteration of the first loop of _resolve_relationships; an exception
\* raised in it leaves the try block of parse() for its outer except
ResolveStep ==
    /\ pc = "resolve"
    /\ line_num <= Len(individuals)
    /\ IF ResolveRaises(families, individuals[line_num][2])
       THEN /\ error' = "KeyError"
            /\ pc' = "return"
            /\ UNCHANGED <<individuals, line_num>>
       ELSE /\ individuals' = [individuals EXCEPT ![line_num] =
                                  <<@[1], ResolveIndividual(families, @[1], @[2])>>]
            /\ line_num' = line_num + 1
            /\ UNCHANGED <<error, pc>>
    /\ UNCHANGED <<inputVars, lines, families, individualLocals, familyLocals,
                   log, result, queryVars>>

\* the second loop of _resolve_relationships ("Clean up empty lists")
ResolveCleanUp ==
    /\ pc = "resolve"
    /\ line_num > Len(individuals)
    /\ individuals' = CleanUp(individuals)
    /\ log' = Append(log, "completed")
    /\ pc' = "return"
    /\ UNCHANGED <<inputVars, lines, families, line_num, individualLocals, familyLocals,
                   error, result, queryVars>>

\* the return statement after the try block, or the one of its except branch
Return ==
    /\ pc = "return"
    /\ result' = IF error = ""
                 THEN ParseResult(individuals, families, individual_count, family_count)
                 ELSE FallbackResult(error)
    /\ pc' = "done"
    /\ UNCHANGED <<inputVars, lines, individuals, families, line_num, individualLocals,
                   familyLocals, log, error, queryVars>>

Next ==
    \/ ReadFile
    \/ IndividualLine
    \/ IndividualsEnd
    \/ FamilyLine
    \/ FamiliesEnd
    \/ ResolveStep
    \/ ResolveCleanUp
    \/ Return

Spec == Init /\ [][Next]_vars

\* parse() on files with lines that do not tokenize or are oddly separated
InitTokens == InitWith(TokenStreams)

SpecTokens == InitTokens /\ [][Next]_vars

\* parse() on files with the lines of individual records in any order
InitSections == InitWith(SectionStreams \cup OtherTagStreams)

SpecSections == InitSections /\ [][Next]_vars

\* parse() on files with the lines of family records in any order
InitFamilyRecords == InitWith(FamilyRecordStreams)

SpecFamilyRecords == InitFamilyRecords /\ [][Next]_vars

\* parse() on files with records whose ids collide
InitCollisions == InitWith(CollisionStreams)

SpecCollisions == InitCollisions /\ [][Next]_vars

\* parse() on files with records of several kinds
InitMixedRecords == InitWith(MixedRecordStreams)

SpecMixedRecords == InitMixedRecords /\ [][Next]_vars

\* parse() on files with records with any identifier
InitTags == InitWith(TagStreams)

SpecTags == InitTags /\ [][Next]_vars

(***************************************************************************)
(* parse() from the call of _resolve_relationships on, for family files    *)
(***************************************************************************)

\* the state in which parse() calls _resolve_relationships: both passes have
\* run over the lines of a readable file
AtResolve(raw_lines) ==
    \E ls \in {NormalizeLines(raw_lines)} :
    \E ist \in {CommitIndividual(IndividualLoop(IndividualPassStart(<<>>), ls, 1))} :
    \E fst \in {CommitFamily(FamilyLoop(FamilyPassStart(<<>>), ls, 1))} :
        /\ content = raw_lines
        /\ readable = TRUE
        /\ pc = "resolve"
        /\ lines = ls
        /\ individuals = ist.individuals
        /\ families = fst.families
        /\ line_num = 1
        /\ current_individual = ist.current_individual
        /\ current_record = ist.current_record
        /\ current_section = ist.current_section
        /\ individual_count = ist.individual_count
        /\ current_family = fst.current_family
        /\ current_family_record = fst.current_record
        /\ family_count = fst.family_count
        /\ log = <<"read", "individuals", "families", "resolve">>
        /\ error = ""
        /\ result = EmptyDict
        /\ NoQuery

InitResolve == \E t \in FamilyStreams : AtResolve(RawLines(t))

NextResolve ==
    \/ ResolveStep
    \/ ResolveCleanUp
    \/ Return

SpecResolve == InitResolve /\ [][NextResolve]_vars

(***************************************************************************)
(* GenealogyQueryEngine.get_family_tree on the model parse() returned      *)
(***************************************************************************)

\* the state after data = parser.parse() on a readable file and
\* GenealogyQueryEngine(data), when get_family_tree(id, gens) is called
AtQuery(raw_lines, id, gens) ==
    \E ls \in {NormalizeLines(raw_lines)} :
    \E ist \in {CommitIndividual(IndividualLoop(IndividualPassStart(<<>>), ls, 1))} :
    \E fst \in {CommitFamily(FamilyLoop(FamilyPassStart(<<>>), ls, 1))} :
    \E inds \in {ResolveRelationships(ist.individuals, fst.families)} :
        /\ content = raw_lines
        /\ readable = TRUE
        /\ pc = "query"
        /\ lines = ls
        /\ individuals = inds
        /\ families = fst.families
        /\ line_num = Len(inds) + 1
        /\ current_individual = ist.current_individual
        /\ current_record = ist.current_record
        /\ current_section = ist.current_section
        /\ individual_count = ist.individual_count
        /\ current_family = fst.current_family
        /\ current_family_record = fst.current_record
        /\ family_count = fst.family_count
        /\ log = <<"read", "individuals", "families", "resolve", "completed">>
        /\ error = ""
        /\ result = ParseResult(inds, fst.families, ist.individual_count, fst.family_count)
        /\ person_id = id
        /\ generations = gens
        /\ stack = <<>>
        /\ tree = EmptyDict
        /\ returned = NoReturn

InitTree ==
    \E t \in TreeStreams \cup DescentStreams, id \in QueryIds, gens \in QueryGenerations :
        AtQuery(RawLines(t), id, gens)

\* build_tree(pid, gen, max_gen) from its first statement to its first loop:
\* either it returns at once (the empty dict, or a node without parents and
\* children keys), or it has a frame that starts the loop over the parents
BuildTreeEntry(inds, pid, gen, max_gen) ==
    IF gen >= max_gen \/ ~MapHas(inds, pid)
    THEN [returns |-> TRUE, value |-> EmptyDict]
    ELSE LET person == MapGet(inds, pid)
             node == [id |-> pid, name |-> person.name, birth |-> person.birth,
                      death |-> person.death, generation |-> gen]
         IN  IF gen < max_gen - 1
             THEN [returns |-> FALSE,
                   frame |-> [pid |-> pid, gen |-> gen, loop |-> "parents", k |-> 1,
                              tree |-> SetKey(node, "parents", <<>>)]]
             ELSE [returns |-> TRUE, value |-> node]

\* the top frame after the call it made returned value: "if parent_tree:
\* tree['parents'].append(parent_tree)", likewise for children
AfterCall(frame, value) ==
    [frame EXCEPT !.k = @ + 1,
                  !.tree = IF TruthyDict(value)
                           THEN [@ EXCEPT ![frame.loop] = Append(@, value)]
                           ELSE @]

\* the list the frame's running loop iterates
LoopList(inds, frame) ==
    IF frame.loop = "parents"
    THEN MapGet(inds, frame.pid).parents
    ELSE MapGet(inds, frame.pid).children

\* the generation passed to the call made in the frame's running loop
CalleeGen(frame) == IF frame.loop = "parents" THEN frame.gen + 1 ELSE frame.gen - 1

Top == stack[Len(stack)]

SetTop(frame) == [stack EXCEPT ![Len(stack)] = frame]

parseVars == <<content, readable, lines, individuals, families, line_num,
               current_individual, current_record, current_section, individual_count,
               current_family, current_family_record, family_count, log, error, result>>

\* get_family_tree: the test of person_id and the call build_tree(person_id, 0, generations)
FamilyTreeStart ==
    /\ pc = "query"
    /\ IF ~MapHas(individuals, person_id)
       THEN /\ tree' = EmptyDict
            /\ pc' = "tree_done"
            /\ UNCHANGED stack
       ELSE LET e == BuildTreeEntry(individuals, person_id, 0, generations)
            IN  IF e.returns
                THEN /\ tree' = e.value
                     /\ pc' = "tree_done"
                     /\ UNCHANGED stack
                ELSE /\ stack' = <<e.frame>>
                     /\ pc' = "build"
                     /\ UNCHANGED tree
    /\ UNCHANGED <<parseVars, returned, person_id, generations>>

\* one iteration of a loop of build_tree: the recursive call, which returns at
\* once, or gets a frame, or exceeds the recursion limit (RecursionError, which
\* nothing catches: get_family_tree raises)
BuildTreeCall ==
    /\ pc = "build"
    /\ Top.k <= Len(LoopList(individuals, Top))
    /\ LET e == BuildTreeEntry(individuals, LoopList(individuals, Top)[Top.k],
                               CalleeGen(Top), generations)
       IN  IF Len(stack) >= RecursionLimit
           THEN /\ pc' = "tree_raised"
                /\ UNCHANGED stack
           ELSE IF e.returns
           THEN /\ stack' = SetTop(AfterCall(Top, e.value))
                /\ UNCHANGED pc
           ELSE /\ stack' = Append(stack, e.frame)
                /\ UNCHANGED pc
    /\ UNCHANGED <<parseVars, returned, person_id, generations, tree>>

\* the loop over the parents is over: tree['children'] = [] and the second loop
BuildTreeChildren ==
    /\ pc = "build"
    /\ Top.loop = "parents"
    /\ Top.k > Len(LoopList(individuals, Top))
    /\ stack' = SetTop([Top EXCEPT !.loop = "children", !.k = 1,
                                   !.tree = SetKey(@, "children", <<>>)])
    /\ UNCHANGED <<parseVars, returned, pc, person_id, generations, tree>>

\* the loop over the children is over: return tree, to the calling frame or
\* to get_family_tree
BuildTreeReturn ==
    /\ pc = "build"
    /\ Top.loop = "children"
    /\ Top.k > Len(LoopList(individuals, Top))
    /\ IF Len(stack) = 1
       THEN /\ tree' = Top.tree
            /\ stack' = <<>>
            /\ pc' = "tree_done"
       ELSE /\ stack' = [n \in 1..(Len(stack) - 1) |->
                            IF n = Len(stack) - 1
                            THEN AfterCall(stack[n], Top.tree)
                            ELSE stack[n]]
            /\ UNCHANGED <<tree, pc>>
    /\ UNCHANGED <<parseVars, returned, person_id, generations>>

NextTree ==
    \/ FamilyTreeStart
    \/ BuildTreeCall
    \/ BuildTreeChildren
    \/ BuildTreeReturn

SpecTree == InitTree /\ [][NextTree]_vars

(***************************************************************************)
(* GenealogyQueryEngine: calls in any sequence on the model parse() returned *)
(***************************************************************************)

\* the state after data = parser.parse() on a readable file and
\* GenealogyQueryEngine(data), before any call
AtReady(raw_lines) ==
    \E ls \in {NormalizeLines(raw_lines)} :
    \E ist \in {CommitIndividual(IndividualLoop(IndividualPassStart(<<>>), ls, 1))} :
    \E fst \in {CommitFamily(FamilyLoop(FamilyPassStart(<<>>), ls, 1))} :
    \E inds \in {ResolveRelationships(ist.individuals, fst.families)} :
        /\ content = raw_lines
        /\ readable = TRUE
        /\ pc = "ready"
        /\ lines = ls
        /\ individuals = inds
        /\ families = fst.families
        /\ line_num = Len(inds) + 1
        /\ current_individual = ist.current_individual
        /\ current_record = ist.current_record
        /\ current_section = ist.current_section
        /\ individual_count = ist.individual_count
        /\ current_family = fst.current_family
        /\ current_family_record = fst.current_record
        /\ family_count = fst.family_count
        /\ log = <<"read", "individuals", "families", "resolve", "completed">>
        /\ error = ""
        /\ result = ParseResult(inds, fst.families, ist.individual_count, fst.family_count)
        /\ NoQuery

InitQuery == \E t \in QueryStreams : AtReady(RawLines(t))

\* no call of get_family_tree is running
Idle == pc \in {"ready", "tree_done", "tree_raised"}

\* what a call of another method leaves of the latest get_family_tree call
TreeCallForgotten ==
    /\ pc' = "ready"
    /\ person_id' = ""
    /\ generations' = 0
    /\ tree' = EmptyDict
    /\ UNCHANGED stack

parserVars == <<content, readable, lines, line_num, current_individual, current_record,
                current_section, individual_count, current_family, current_family_record,
                family_count, log, error, result>>

\* find_person(name_query)
FindPersonCall ==
    /\ Idle
    /\ \E name_query \in NameQueries :
           returned' = [op |-> "find_person", arg |-> name_query,
                        value |-> FindPerson(individuals, name_query)]
    /\ TreeCallForgotten
    /\ UNCHANGED <<parserVars, individuals, families>>

\* get_person_details(person_id)
PersonDetailsCall ==
    /\ Idle
    /\ \E pid \in QueryIds :
           LET details == PersonDetails(individuals, pid)
           IN  /\ returned' = [op |-> "get_person_details", arg |-> pid,
                               found |-> details.found, value |-> details.person]
               /\ individuals' = details.individuals
    /\ TreeCallForgotten
    /\ UNCHANGED <<parserVars, families>>

\* search_by_location(location)
SearchByLocationCall ==
    /\ Idle
    /\ \E location \in LocationQueries :
           returned' = [op |-> "search_by_location", arg |-> location,
                        value |-> SearchByLocation(individuals, location)]
    /\ TreeCallForgotten
    /\ UNCHANGED <<parserVars, individuals, families>>

\* get_statistics()
StatisticsCall ==
    /\ Idle
    /\ returned' = [op |-> "get_statistics", value |-> Statistics(individuals, families)]
    /\ TreeCallForgotten
    /\ UNCHANGED <<parserVars, individuals, families>>

\* get_family_tree(person_id, generations) is called; its statements follow
FamilyTreeCall ==
    /\ Idle
    /\ \E pid \in QueryIds, gens \in CallGenerations :
           /\ person_id' = pid
           /\ generations' = gens
    /\ pc' = "query"
    /\ stack' = <<>>
    /\ tree' = EmptyDict
    /\ returned' = NoReturn
    /\ UNCHANGED <<parserVars, individuals, families>>

NextQuery ==
    \/ FindPersonCall
    \/ PersonDetailsCall
    \/ SearchByLocationCall
    \/ StatisticsCall
    \/ FamilyTreeCall
    \/ FamilyTreeStart
    \/ BuildTreeCall
    \/ BuildTreeChildren
    \/ BuildTreeReturn

SpecQuery == InitQuery /\ [][NextQuery]_vars

(***************************************************************************)
(* Properties of parse()                                                   *)
(***************************************************************************)

\* the string s without the characters in chars
RECURSIVE WithoutChars(_, _)
WithoutChars(s, chars) ==
    IF Len(s) = 0 THEN ""
    ELSE (IF Char(s, 1) \in chars THEN "" ELSE Char(s, 1))
         \o WithoutChars(SubSeq(s, 2, Len(s)), chars)

Returned == pc = "done"

\* some statement of parse() can run: parse() has not stopped short of its return
CanStep == pc \in {"read", "individuals", "families", "resolve", "return"}

\* C1: parse() always runs to its return statement (no state before it is
\* stuck, whatever the file holds and whether or not it can be read), and what
\* it returns has exactly the keys individuals, families and summary, with
\* total_individuals / total_families equal to the number of entries (distinct
\* keys) of the returned maps.
C1_ParseAlwaysReturnsConsistentTotals ==
    /\ ~Returned => CanStep
    /\ Returned =>
         /\ DOMAIN result = {"individuals", "families", "summary"}
         /\ result.summary.total_individuals = Len(result.individuals)
         /\ result.summary.total_individuals = Cardinality(MapKeys(result.individuals))
         /\ result.summary.total_families = Len(result.families)
         /\ result.summary.total_families = Cardinality(MapKeys(result.families))

\* a readable file with colliding ids: three record starts, two entries
C1_Witness ==
    /\ Returned
    /\ readable
    /\ individual_count = 3
    /\ result.summary.total_individuals = 2

\* C2: when the read fails, parse() of a fresh parser goes on with no lines:
\* the individual pass, the family pass and the resolution still run, and the
\* result has empty maps and both totals 0.
C2_ReadFailureContinuesEmpty ==
    (~readable /\ pc /= "read") =>
        /\ lines = <<>>
        /\ Returned =>
             /\ log = <<"read", "read_error", "individuals", "families", "resolve", "completed">>
             /\ result.individuals = <<>>
             /\ result.families = <<>>
             /\ result.summary.total_individuals = 0
             /\ result.summary.total_families = 0

\* an unreadable file whose text holds an individual and a family record
C2_Witness ==
    /\ Returned
    /\ ~readable
    /\ \E n \in 1..Len(content) : content[n] = "0 @I1@ INDI\n"
    /\ \E n \in 1..Len(content) : content[n] = "0 @F1@ FAM\n"

\* the lines that start an individual record
IndiStarts ==
    {n \in 1..Len(lines) :
        LET t == Tokenize(lines[n])
        IN  ~t.skip /\ t.level = 0 /\ t.nparts >= 3 /\ t.value = "INDI"}

\* the id of the record line n starts: its second field without '@' and 'I'
StartId(n) == WithoutChars(SplitMax(lines[n], " ", 2)[2], {"@", "I"})

AfterIndividualPass == pc \in {"families", "resolve", "return", "done"}

\* C3 as stated: after the individual pass there is one record per INDI start
\* line, keyed by the line's stripped id, so as many records as such lines.
C3_OneRecordPerIndiLine ==
    AfterIndividualPass =>
        /\ \A n \in IndiStarts : MapHas(individuals, StartId(n))
        /\ Len(individuals) = Cardinality(IndiStarts)

\* C3 (amended): after the individual pass the map holds exactly one record
\* for each distinct non-empty stripped id of an INDI start line, stored under
\* that id: a line whose id strips to the empty string adds no record and lines
\* with equal stripped ids share one record.
C3_OneRecordPerDistinctNonEmptyId ==
    AfterIndividualPass =>
        /\ MapKeys(individuals) = {StartId(n) : n \in IndiStarts} \ {""}
        /\ Len(individuals) = Cardinality({StartId(n) : n \in IndiStarts} \ {""})
        /\ \A n \in 1..Len(individuals) : individuals[n][2].id = individuals[n][1]

\* three record starts, one with an empty id, two records
C3_Witness ==
    /\ AfterIndividualPass
    /\ Cardinality(IndiStarts) = 3
    /\ \E n \in IndiStarts : StartId(n) = ""
    /\ Len(individuals) = 2

\* C4: for the stream INDI start, NAME first /sur/, SEX g, BIRT, DATE d, PLAC p
\* the individual stored (the stripped tag being non-empty) has the stripped
\* tag as id, the name "first sur", gender g, birth exactly {date: d, place: p}
\* and an empty death record.
C4_ExampleIndividual ==
    (Returned /\ readable /\ Len(content) = 6) =>
        \A tag \in ExampleTags, first \in ExampleFirst, sur \in ExampleSurnames,
           g \in ExampleGenders, d \in ExampleDates, p \in ExamplePlaces :
            (content = RawLines(ExampleStream(tag, first, sur, g, d, p))
             /\ WithoutChars(tag, {"@", "I"}) /= "") =>
                /\ MapKeys(result.individuals) = {WithoutChars(tag, {"@", "I"})}
                /\ LET person == result.individuals[1][2]
                   IN  /\ person.id = WithoutChars(tag, {"@", "I"})
                       /\ person.name = first \o " " \o sur
                       /\ person.gender = g
                       /\ person.birth = [date |-> d, place |-> p]
                       /\ person.death = EmptyDict

\* the stream of the specification's example
C4_Witness ==
    /\ Returned
    /\ readable
    /\ content = RawLines(ExampleStream("@I1@", "John", "SMITH", "M", "01 JAN 1900", "Paris"))
    /\ result.individuals[1][2].name = "John SMITH"
    /\ result.individuals[1][2].birth = [date |-> "01 JAN 1900", place |-> "Paris"]

\* the individual pass is about to run the NAME branch on lines[line_num]
AtNameLine ==
    /\ pc = "individuals"
    /\ line_num <= Len(lines)
    /\ Truthy(current_individual)
    /\ LET t == Tokenize(lines[line_num])
       IN  ~t.skip /\ t.level = 1 /\ t.tag = "NAME"

NameValue == Tokenize(lines[line_num]).value

\* the value split on '/', each segment trimmed, the empty ones dropped, the
\* rest joined by one space
SplitTrimJoin(value) == Join(StrippedParts(SplitMax(value, "/", -1)), " ")

\* C5: a NAME value with at least one slash is stored split on '/', trimmed
\* segment by segment, without the empty segments, joined by single spaces.
C5_SlashNameIsSplitTrimJoined ==
    [][(AtNameLine /\ HasChar(NameValue, "/")) =>
           current_record'.name = SplitTrimJoin(NameValue)]_vars

\* C6: normalizing a stored name again changes nothing, a stored name has no
\* slash, and a value without a slash is stored unchanged.
C6_NormalizeIdempotent ==
    [][AtNameLine =>
           /\ NormalizeName(current_record'.name) = current_record'.name
           /\ ~HasChar(current_record'.name, "/")
           /\ (~HasChar(NameValue, "/") => current_record'.name = NameValue)]_vars

\* a value with slashes and spaces, stored as something else
C6_Witness ==
    /\ pc = "individuals"
    /\ line_num = 3
    /\ Tokenize(lines[2]).tag = "NAME"
    /\ Tokenize(lines[2]).value = "a/ a"
    /\ current_record.name = "a a"

(***************************************************************************)
(* Properties of _resolve_relationships                                    *)
(***************************************************************************)

Resolved == pc \in {"return", "done"}

\* parse() returned from its try block, not from the outer except
ReturnedNormally == Returned /\ "error" \notin DOMAIN result.summary

\* the family stored under id (which must be a key of families)
FamilyOf(id) == families[CHOOSE n \in 1..Len(families) : families[n][1] = id][2]

Exists(id) == \E n \in 1..Len(families) : families[n][1] = id

Opt(id) == IF id = "" THEN <<>> ELSE <<id>>

\* husband then wife, the non-empty ones, of each existing family of ids[k..]
RECURSIVE ExpectedParents(_, _)
ExpectedParents(ids, k) ==
    IF k > Len(ids) THEN <<>>
    ELSE (IF Exists(ids[k])
          THEN Opt(FamilyOf(ids[k]).husband) \o Opt(FamilyOf(ids[k]).wife)
          ELSE <<>>)
         \o ExpectedParents(ids, k + 1)

\* the other spouse of each existing family of ids[k..] in which own is the
\* husband or the wife
RECURSIVE ExpectedSpouse(_, _, _)
ExpectedSpouse(own, ids, k) ==
    IF k > Len(ids) THEN <<>>
    ELSE (IF ~Exists(ids[k]) THEN <<>>
          ELSE IF FamilyOf(ids[k]).husband = own THEN Opt(FamilyOf(ids[k]).wife)
          ELSE IF FamilyOf(ids[k]).wife = own THEN Opt(FamilyOf(ids[k]).husband)
          ELSE <<>>)
         \o ExpectedSpouse(own, ids, k + 1)

\* all children of each existing family of ids[k..]
RECURSIVE ExpectedChildren(_, _)
ExpectedChildren(ids, k) ==
    IF k > Len(ids) THEN <<>>
    ELSE (IF Exists(ids[k]) THEN FamilyOf(ids[k]).children ELSE <<>>)
         \o ExpectedChildren(ids, k + 1)

\* C7: after resolution each individual's parents list is the concatenation,
\* over families_as_child in order, of the non-empty husband then the non-empty
\* wife of each referenced family that exists.
C7_ParentsHusbandThenWife ==
    Resolved =>
        \A n \in 1..Len(individuals) :
            individuals[n][2].parents = ExpectedParents(individuals[n][2].families_as_child, 1)

\* individual 2, child of family 1 with husband 1 and wife 3
C7_Witness ==
    /\ Resolved
    /\ Exists("1")
    /\ FamilyOf("1").husband = "1"
    /\ FamilyOf("1").wife = "3"
    /\ individuals[2][2].families_as_child = <<"1">>
    /\ individuals[2][2].parents = <<"1", "3">>

\* the ids of the list that name an existing family, in order
RECURSIVE Live(_, _)
Live(ids, k) ==
    IF k > Len(ids) THEN <<>>
    ELSE (IF Exists(ids[k]) THEN <<ids[k]>> ELSE <<>>) \o Live(ids, k + 1)

\* C8: references to absent families contribute nothing: parents, spouse and
\* children are what the existing references alone give (all empty when every
\* reference dangles); resolution ends normally and families_as_child /
\* families_as_spouse still hold every id the parser stored, dangling or not.
C8_DanglingReferencesIgnored ==
    /\ Returned => ReturnedNormally
    /\ Resolved =>
         /\ error = ""
         /\ \A n \in 1..Len(individuals) :
            LET person == individuals[n][2]
                parsed == ExtractIndividuals(<<>>, lines)[n][2]
            IN  /\ person.families_as_child = parsed.families_as_child
                /\ person.families_as_spouse = parsed.families_as_spouse
                /\ person.parents = ExpectedParents(Live(person.families_as_child, 1), 1)
                /\ person.spouse = ExpectedSpouse(person.id, Live(person.families_as_spouse, 1), 1)
                /\ person.children = ExpectedChildren(Live(person.families_as_spouse, 1), 1)
                /\ Live(person.families_as_child, 1) = <<>> => person.parents = <<>>
                /\ Live(person.families_as_spouse, 1) = <<>> =>
                       (person.spouse = <<>> /\ person.children = <<>>)

\* individual 1 with a dangling and an existing reference in each list
C8_Witness ==
    /\ ReturnedNormally
    /\ individuals[1][2].families_as_child = <<"9", "1">>
    /\ individuals[1][2].families_as_spouse = <<"1", "9">>
    /\ ~Exists("9")
    /\ Len(individuals[1][2].parents) = 2
    /\ Len(individuals[1][2].children) = 2

\* C9: after resolution, spouse holds, per existing family of
\* families_as_spouse in order, the other spouse when the individual is the
\* husband or the wife and the other side is non-empty, and children holds all
\* children of those families, whoever the individual is in them.
C9_SpouseByIdentityChildrenUnconditional ==
    Resolved =>
        \A n \in 1..Len(individuals) :
            LET person == individuals[n][2]
            IN  /\ person.spouse = ExpectedSpouse(individuals[n][1], person.families_as_spouse, 1)
                /\ person.children = ExpectedChildren(person.families_as_spouse, 1)

\* individual 1 refers to family 1 as a spouse but is neither its husband nor
\* its wife: no spouse, and the children, one of them unknown
C9_Witness ==
    /\ Resolved
    /\ individuals[1][2].families_as_spouse = <<"1">>
    /\ FamilyOf("1").husband = "2"
    /\ FamilyOf("1").wife = "3"
    /\ individuals[1][2].spouse = <<>>
    /\ individuals[1][2].children = <<"3", "8">>
    /\ "8" \notin MapKeys(individuals)

(***************************************************************************)
(* Properties of get_family_tree                                           *)
(***************************************************************************)

\* a call of build_tree for an individual runs inside a call for the same
\* individual whose generation is the same or greater: the inner call makes
\* the calls the outer one made, so the recursion never ends
RecursionRepeats ==
    \E m, n \in 1..Len(stack) :
        m < n /\ stack[m].pid = stack[n].pid /\ stack[n].gen <= stack[m].gen

\* the recursion limit of the model is reached only by a recursion that
\* never ends
LimitReachedOnlyByEndlessRecursion == pc = "tree_raised" => RecursionRepeats

\* C10: get_family_tree returns a tree for every resolved model and every
\* generations value: it never ends in RecursionError.
C10_FamilyTreeTerminates == pc /= "tree_raised"

\* the call of get_family_tree is over, with a value or with an exception
TreeCallOver == pc \in {"tree_done", "tree_raised"}

\* the entries of a node under key, none when the node has no such key
Entries(node, key) == IF key \in DOMAIN node THEN node[key] ELSE <<>>

\* what C11 says of a returned tree
TwoGenerationShape ==
    /\ tree.id = person_id
    /\ tree.generation = 0
    /\ \A n \in 1..Len(Entries(tree, "parents")) :
           /\ tree.parents[n].generation = 1
           /\ "parents" \notin DOMAIN tree.parents[n]

\* the part of C11 the code keeps: a tree that is returned has that shape
TwoGenerationShapeWhenReturned ==
    (pc = "tree_done" /\ generations = 2 /\ MapHas(individuals, person_id)) =>
        TwoGenerationShape

\* C11: for every resolved model and every known root id,
\* get_family_tree(root, 2) returns a node with generation 0 for the root
\* whose parents entries have generation 1 and no parents key of their own.
C11_TwoGenerationTree ==
    (TreeCallOver /\ generations = 2 /\ MapHas(individuals, person_id)) =>
        /\ pc = "tree_done"
        /\ TwoGenerationShape

\* the nodes of a tree: the node and the nodes under its parents and children
RECURSIVE Nodes(_)
Nodes(node) ==
    {node}
    \cup UNION {Nodes(Entries(node, "parents")[n]) : n \in 1..Len(Entries(node, "parents"))}
    \cup UNION {Nodes(Entries(node, "children")[n]) : n \in 1..Len(Entries(node, "children"))}

\* parents entries are one generation up, children entries one generation down
GenerationsStepByOne ==
    (pc = "tree_done" /\ TruthyDict(tree)) =>
        \A node \in Nodes(tree) :
            /\ \A n \in 1..Len(Entries(node, "parents")) :
                   node.parents[n].generation = node.generation + 1
            /\ \A n \in 1..Len(Entries(node, "children")) :
                   node.children[n].generation = node.generation - 1

\* C12: in a returned tree every node's generation g is within the requested
\* depth, -generations < g < generations, parents entries have generation g + 1
\* and children entries g - 1.
C12_BothDirectionsBounded ==
    (pc = "tree_done" /\ TruthyDict(tree)) =>
        \A node \in Nodes(tree) :
            /\ 0 - generations < node.generation
            /\ node.generation < generations
            /\ \A n \in 1..Len(Entries(node, "parents")) :
                   node.parents[n].generation = node.generation + 1
            /\ \A n \in 1..Len(Entries(node, "children")) :
                   node.children[n].generation = node.generation - 1

(***************************************************************************)
(* Properties of the other query methods                                   *)
(***************************************************************************)

\* two characters that are the same letter in either case, or the same character
SameIgnoringCase(a, b) ==
    \/ a = b
    \/ \E i \in 1..Len(UpperCase) :
           {a, b} = {Char(UpperCase, i), Char(LowerCase, i)}

\* needle occurs in hay at some position, letter case aside
ContainsIgnoringCase(hay, needle) ==
    \E i \in 0..(Len(hay) - Len(needle)) :
        \A j \in 1..Len(needle) : SameIgnoringCase(Char(hay, i + j), Char(needle, j))

\* the records of the entries of the map that pass Test, in the map's order
RecordsWhere(inds, Test(_)) ==
    LET kept == SelectSeq(inds, LAMBDA entry : Test(entry[2]))
    IN  [n \in 1..Len(kept) |-> kept[n][2]]

NameMatches(person) == ContainsIgnoringCase(person.name, returned.arg)

\* C13: find_person returns exactly the individuals whose name contains the
\* query as a substring, letter case aside, in the insertion order of the
\* individuals map, all of them.
C13_FindPersonSubstringAnyCase ==
    returned.op = "find_person" =>
        returned.value = RecordsWhere(individuals, NameMatches)

\* "smith" finds John SMITH and a second individual after it
C13_Witness ==
    /\ returned.op = "find_person"
    /\ returned.arg = "smith"
    /\ Len(returned.value) = 2
    /\ returned.value[1].name = "John SMITH"
    /\ returned.value[1].id = "1"

\* the individuals without a death date: no date key, or an empty date
Living ==
    {n \in 1..Len(individuals) :
        \/ "date" \notin DOMAIN individuals[n][2].death
        \/ individuals[n][2].death.date = ""}

\* C14: living_people is the number of individuals whose death.date is empty
\* or absent.
C14_LivingPeopleCount ==
    returned.op = "get_statistics" =>
        returned.value.living_people = Cardinality(Living)

\* one individual with a death date, one with a DATE line without a value
C14_Witness ==
    /\ returned.op = "get_statistics"
    /\ returned.value.living_people = 1
    /\ \E n \in 1..Len(individuals) :
           /\ "date" \in DOMAIN individuals[n][2].death
           /\ individuals[n][2].death.date = ""
    /\ \E n \in 1..Len(individuals) :
           /\ "date" \in DOMAIN individuals[n][2].death
           /\ individuals[n][2].death.date = "1950"

\* the number of individuals with a gender among codes
WithGender(codes) ==
    Cardinality({n \in 1..Len(individuals) : individuals[n][2].gender \in codes})

\* C15: the gender buckets are M, F and Unknown and no other; M counts the
\* individuals with code M, F those with code F, Unknown all the others, so
\* the three add up to total_individuals.
C15_GenderBucketsPartition ==
    returned.op = "get_statistics" =>
        LET buckets == returned.value.gender_distribution
        IN  /\ MapKeys(buckets) = {"M", "F", "Unknown"}
            /\ Len(buckets) = 3
            /\ MapGet(buckets, "M") = WithGender({"M"})
            /\ MapGet(buckets, "F") = WithGender({"F"})
            /\ MapGet(buckets, "Unknown") = Len(individuals) - WithGender({"M", "F"})
            /\ MapGet(buckets, "M") + MapGet(buckets, "F") + MapGet(buckets, "Unknown")
                   = returned.value.total_individuals

\* a code outside the buckets is counted in Unknown, next to an F
C15_Witness ==
    /\ returned.op = "get_statistics"
    /\ \E n \in 1..Len(individuals) : individuals[n][2].gender = "U"
    /\ MapGet(returned.value.gender_distribution, "Unknown") = 1
    /\ MapGet(returned.value.gender_distribution, "F") = 1

\* the keys get_person_details adds
NameKeys == {"parent_names", "spouse_names", "children_names"}

\* C16: every step of every query method leaves the individuals and families
\* maps as they are, and get_person_details returns a record with the three
\* names lists while no stored record has them.
C16_QueriesOnlyRead ==
    [][/\ individuals' = individuals
       /\ families' = families
       /\ (returned'.op = "get_person_details" /\ returned'.found) =>
              /\ NameKeys \subseteq DOMAIN returned'.value
              /\ \A n \in 1..Len(individuals') :
                     NameKeys \cap DOMAIN individuals'[n][2] = {}]_vars

\* the details of the child: its parent's name in the returned record
C16_Witness ==
    /\ returned.op = "get_person_details"
    /\ returned.found
    /\ returned.arg = "2"
    /\ returned.value.parent_names = <<"John SMITH">>
    /\ "parent_names" \notin DOMAIN MapGet(individuals, "2")

(***************************************************************************)
(* Properties of the tokenizer                                             *)
(***************************************************************************)

\* the longest prefix of s without a character of chars
RECURSIVE PrefixUntil(_, _)
PrefixUntil(s, chars) ==
    IF Len(s) = 0 \/ Char(s, 1) \in chars THEN ""
    ELSE Char(s, 1) \o PrefixUntil(SubSeq(s, 2, Len(s)), chars)

\* the first two whitespace-delimited fields of a line and the remainder
WhitespaceFields(line) ==
    LET l == Strip(line)
        first == PrefixUntil(l, Whitespace)
        rest1 == LStrip(SubSeq(l, Len(first) + 1, Len(l)), Whitespace)
        second == PrefixUntil(rest1, Whitespace)
        rest2 == LStrip(SubSeq(rest1, Len(second) + 1, Len(rest1)), Whitespace)
    IN  <<first, second, rest2>>

\* the same line with single spaces between level, tag and value
SingleSpaced(line) ==
    LET f == WhitespaceFields(line)
    IN  IF f[2] = "" THEN f[1]
        ELSE IF f[3] = "" THEN f[1] \o " " \o f[2]
        ELSE f[1] \o " " \o f[2] \o " " \o f[3]

InIndividualLoop == pc = "individuals" /\ line_num <= Len(lines)

InFamilyLoop == pc = "families" /\ line_num <= Len(lines)

\* C17: level and tag are the first two whitespace-delimited fields and the
\* value is the remainder: each pass does with a line what it does with the
\* same line written with single spaces between the fields.
C17_SeparatorsAreWhitespace ==
    [][/\ InIndividualLoop =>
              IndividualState' = IndividualStep(IndividualState, SingleSpaced(lines[line_num]))
       /\ InFamilyLoop =>
              FamilyState' = FamilyStep(FamilyState, SingleSpaced(lines[line_num]))]_vars

\* a line with fewer than two fields, or whose level is no integer or a
\* negative one
NoOpLine(line) ==
    LET f == WhitespaceFields(line)
    IN  \/ f[2] = ""
        \/ ~PyInt(f[1]).ok
        \/ PyInt(f[1]).val < 0

\* seq without its k-th element
Without(seq, k) == SubSeq(seq, 1, k - 1) \o SubSeq(seq, k + 1, Len(seq))

\* C18: a line with fewer than two fields, or with a level that is not a
\* non-negative integer, changes nothing in either pass (maps, current record,
\* current section, counters), and the maps parse() returns are those of the
\* stream without the line.
C18_UnparseableLinesAreNoOps ==
    [][/\ ((InIndividualLoop \/ InFamilyLoop) /\ NoOpLine(lines[line_num])) =>
              UNCHANGED <<individuals, families, individualLocals, familyLocals>>
       /\ pc' = "done" =>
              \A k \in 1..Len(lines') :
                  NoOpLine(lines'[k]) =>
                      /\ result'.individuals =
                             ResolveRelationships(ExtractIndividuals(<<>>, Without(lines', k)),
                                                  ExtractFamilies(<<>>, Without(lines', k)))
                      /\ result'.families = ExtractFamilies(<<>>, Without(lines', k))]_vars

\* a NAME line with level -1 after the NAME line of the record: the name stays
C18_Witness ==
    /\ pc = "done"
    /\ lines[2] = "1 NAME a"
    /\ lines[3] = "-1 NAME q"
    /\ result.individuals[1][2].name = "a"

(***************************************************************************)
(* Properties of the sections of an individual record                      *)
(***************************************************************************)

LevelOf(line) == WhitespaceFields(line)[1]
TagOf(line) == WhitespaceFields(line)[2]
ValueOf(line) == WhitespaceFields(line)[3]

IsIndiStart(line) == LevelOf(line) = "0" /\ ValueOf(line) = "INDI"

\* the level-1 tags that open a section, with the section
SectionOfTag ==
    [tag \in {"BIRT", "DEAT", "OBJE", "NOTE"} |->
        CASE tag = "BIRT" -> "birth" [] tag = "DEAT" -> "death"
          [] tag = "OBJE" -> "media" [] tag = "NOTE" -> "notes"]

OpensSection(line) == LevelOf(line) = "1" /\ TagOf(line) \in DOMAIN SectionOfTag

\* the greatest element of a set of positions, 0 for the empty set
Latest(S) == IF S = {} THEN 0 ELSE CHOOSE k \in S : \A m \in S : m <= k

\* the start line of the record that is open before line n, 0 if none
OpenRecord(n) == Latest({k \in 1..(n - 1) : IsIndiStart(lines[k])})

\* the section open before line n, by the lines read so far: the one of the
\* latest section line of the open record, none without such a line or
\* without an open record with a non-empty id
OpenedSection(n) ==
    LET start == OpenRecord(n)
        opening == Latest({k \in (start + 1)..(n - 1) : OpensSection(lines[k])})
    IN  IF start = 0 \/ StartId(start) = "" \/ opening = 0 THEN ""
        ELSE SectionOfTag[TagOf(lines[opening])]

EventKey(tag) == IF tag = "DATE" THEN "date" ELSE "place"

\* C19: in the individual pass current_section is the section the latest
\* BIRT, DEAT, OBJE or NOTE line of the open record opened; it changes only
\* on such a line and on the start of a record (to none), and no other
\* level-1 line changes it; a level-2 DATE or PLAC is written into the open
\* birth or death whatever level-1 lines came in between, and a level-2 line
\* without an open section changes nothing.
C19_SectionSticksUntilReopened ==
    [][InIndividualLoop =>
          LET line == lines[line_num]
              open == OpenedSection(line_num)
          IN  /\ current_section = open
              /\ current_section' /= current_section =>
                     \/ IsIndiStart(line) /\ current_section' = ""
                     \/ OpensSection(line) /\ current_section' = SectionOfTag[TagOf(line)]
              /\ (LevelOf(line) = "1" /\ ~OpensSection(line)) =>
                     current_section' = current_section
              /\ (LevelOf(line) = "2" /\ TagOf(line) \in {"DATE", "PLAC"}
                      /\ open \in {"birth", "death"}) =>
                     /\ current_record'[open][EventKey(TagOf(line))] = ValueOf(line)
                     /\ current_section' = open
              /\ (LevelOf(line) = "2" /\ open = "") =>
                     UNCHANGED <<individuals, individualLocals>>]_vars

\* BIRT, then FAMC, then DATE: the date is in birth
C19_Witness ==
    /\ pc = "individuals"
    /\ line_num = 5
    /\ lines[2] = "1 BIRT"
    /\ lines[3] = "1 FAMC @F1@"
    /\ lines[4] = "2 DATE d"
    /\ current_record.birth = [date |-> "d"]
    /\ current_record.families_as_child = <<"1">>
    /\ current_section = "birth"

(***************************************************************************)
(* Properties of the lines of a family record                              *)
(***************************************************************************)

IsFamStart(line) == LevelOf(line) = "0" /\ ValueOf(line) = "FAM"

\* the id of the family record line k starts
FamStartId(k) == WithoutChars(TagOf(lines[k]), {"@", "F"})

\* the start line of the family record that is open before line n, 0 if none
OpenFamilyRecord(n) == Latest({k \in 1..(n - 1) : IsFamStart(lines[k])})

\* a family record with a non-empty id is open before line n
FamilyOpen(n) == OpenFamilyRecord(n) /= 0 /\ FamStartId(OpenFamilyRecord(n)) /= ""

\* the lines of the record that starts at line k
RecordLines(k) ==
    {m \in (k + 1)..Len(lines) : \A j \in (k + 1)..m : ~IsFamStart(lines[j])}

\* the marriage of the record that starts at line k, by its lines: the value
\* of its last level-2 DATE line and of its last level-2 PLAC line
MarriageByLines(k) ==
    LET at(tag) == Latest({m \in RecordLines(k) :
                              LevelOf(lines[m]) = "2" /\ TagOf(lines[m]) = tag})
        keys == {key \in {"date", "place"} :
                    at(IF key = "date" THEN "DATE" ELSE "PLAC") /= 0}
    IN  [key \in keys |-> ValueOf(lines[at(IF key = "date" THEN "DATE" ELSE "PLAC")])]

\* the record that starts at line k has a level-1 DIV or SEP line
DivorcedByLines(k) ==
    \E m \in RecordLines(k) : LevelOf(lines[m]) = "1" /\ TagOf(lines[m]) \in {"DIV", "SEP"}

\* C20: while a family record is open a level-2 DATE / PLAC line sets
\* marriage.date / marriage.place whatever level-1 line came before, the last
\* such line wins, and divorced, once set by a level-1 DIV or SEP, stays true
\* until the record ends.
C20_MarriageDetailsAndDivorce ==
    [][/\ InFamilyLoop =>
              LET line == lines[line_num]
                  open == FamilyOpen(line_num)
              IN  /\ Truthy(current_family) <=> open
                  /\ (open /\ LevelOf(line) = "2" /\ TagOf(line) \in {"DATE", "PLAC"}) =>
                         current_family_record'.marriage =
                             SetKey(current_family_record.marriage,
                                    EventKey(TagOf(line)), ValueOf(line))
                  /\ (open /\ LevelOf(line) = "1" /\ TagOf(line) \in {"DIV", "SEP"}) =>
                         current_family_record'.divorced
                  /\ (open /\ current_family_record.divorced /\ ~IsFamStart(line)) =>
                         current_family_record'.divorced
       /\ (pc = "families" /\ pc' = "resolve") =>
              \A n \in 1..Len(families') :
                  LET k == Latest({m \in 1..Len(lines) :
                                      IsFamStart(lines[m]) /\ FamStartId(m) = families'[n][1]})
                  IN  /\ k /= 0
                      /\ families'[n][2].marriage = MarriageByLines(k)
                      /\ families'[n][2].divorced = DivorcedByLines(k)]_vars

\* DIV, then two dates: the second date is the marriage date, divorced is true
C20_Witness ==
    /\ pc = "done"
    /\ Len(lines) = 5
    /\ lines[3] = "1 DIV"
    /\ lines[4] = "2 DATE a"
    /\ lines[5] = "2 DATE b"
    /\ MapHas(families, "1")
    /\ MapGet(families, "1").marriage = [date |-> "b"]
    /\ MapGet(families, "1").divorced

(***************************************************************************)
(* Properties of records with the same id                                  *)
(***************************************************************************)

\* the last line of the record that starts at line k: the line before the
\* next start of a record of its kind, or the last line
LastLineOf(k, IsStart(_)) ==
    LET later == {m \in (k + 1)..Len(lines) : IsStart(lines[m])}
    IN  IF later = {} THEN Len(lines)
        ELSE (CHOOSE m \in later : \A j \in later : m <= j) - 1

\* the record that starts at line k, alone in a file
RecordAlone(k, IsStart(_)) == SubSeq(lines, k, LastLineOf(k, IsStart))

\* the start line of the last individual / family record with the id
LastIndividualStart(id) ==
    Latest({k \in 1..Len(lines) : IsIndiStart(lines[k]) /\ StartId(k) = id})

LastFamilyStart(id) ==
    Latest({k \in 1..Len(lines) : IsFamStart(lines[k]) /\ FamStartId(k) = id})

\* no two entries of the map have the same key
SingleEntries(m) == \A a, b \in 1..Len(m) : m[a][1] = m[b][1] => a = b

\* C21: the map holds one entry for an id two records yield, and it is the
\* later record's and nothing of the earlier one's; the open record is
\* written to the map only at the next record start of its kind and at the
\* end of the lines.
C21_LaterRecordReplacesEarlier ==
    [][/\ (InIndividualLoop /\ individuals' /= individuals) =>
              /\ IsIndiStart(lines[line_num])
              /\ individuals' = MapPut(individuals, current_individual, current_record)
       /\ (InFamilyLoop /\ families' /= families) =>
              /\ IsFamStart(lines[line_num])
              /\ families' = MapPut(families, current_family, current_family_record)
       /\ (pc = "individuals" /\ pc' = "families") =>
              /\ SingleEntries(individuals')
              /\ \A n \in 1..Len(individuals') :
                     LET k == LastIndividualStart(individuals'[n][1])
                     IN  /\ k /= 0
                         /\ <<individuals'[n]>> =
                                ExtractIndividuals(<<>>, RecordAlone(k, IsIndiStart))
       /\ (pc = "families" /\ pc' = "resolve") =>
              /\ SingleEntries(families')
              /\ \A n \in 1..Len(families') :
                     LET k == LastFamilyStart(families'[n][1])
                     IN  /\ k /= 0
                         /\ <<families'[n]>> =
                                ExtractFamilies(<<>>, RecordAlone(k, IsFamStart))]_vars

\* a record with a name, then a record with the same id and a sex: the entry
\* has the sex and no name; or a family with a husband, then one with the
\* same id and a wife: the entry has the wife and no husband
C21_Witness ==
    /\ pc = "done"
    /\ \/ /\ SubSeq(lines, 1, 4) = <<"0 @I1@ INDI", "1 NAME a", "0 @1@ INDI", "1 SEX M">>
          /\ Len(individuals) = 1
          /\ individuals[1][2].name = ""
          /\ individuals[1][2].gender = "M"
       \/ /\ Len(lines) = 6
          /\ SubSeq(lines, 3, 6) = <<"0 @F1@ FAM", "1 HUSB @I1@", "0 @1@ FAM", "1 WIFE @I2@">>
          /\ Len(families) = 1
          /\ families[1][2].husband = ""
          /\ families[1][2].wife = "2"

(***************************************************************************)
(* Properties of the lines of records of another kind                      *)
(***************************************************************************)

\* line n is a level-1 or level-2 line of a record of another kind: the
\* latest level-0 line before it does not start a record of the kind
InOtherRecord(n, IsStart(_)) ==
    LET k == Latest({m \in 1..(n - 1) : LevelOf(lines[m]) = "0"})
    IN  /\ LevelOf(lines[n]) \in {"1", "2"}
        /\ k /= 0
        /\ ~IsStart(lines[k])

\* the lines without those of records of another kind
LinesOfKind(IsStart(_)) ==
    LET RECURSIVE Kept(_)
        Kept(n) == IF n = 0 THEN <<>>
                   ELSE Kept(n - 1) \o (IF InOtherRecord(n, IsStart) THEN <<>>
                                        ELSE <<lines[n]>>)
    IN  Kept(Len(lines))

\* C22: the individual pass changes no individual record on a level-1 or
\* level-2 line of a level-0 record that is not an individual, and the
\* individuals it extracts are those it extracts without these lines.
C22_OtherRecordsLeaveIndividuals ==
    [][/\ (InIndividualLoop /\ InOtherRecord(line_num, IsIndiStart)) =>
              UNCHANGED <<individuals, current_record>>
       /\ (pc = "individuals" /\ pc' = "families") =>
              individuals' = ExtractIndividuals(<<>>, LinesOfKind(IsIndiStart))]_vars

\* C23: the family pass changes no family record on a level-1 or level-2
\* line of a level-0 record that is not a family, and the families it
\* extracts are those it extracts without these lines.
C23_OtherRecordsLeaveFamilies ==
    [][/\ (InFamilyLoop /\ InOtherRecord(line_num, IsFamStart)) =>
              UNCHANGED <<families, current_family_record>>
       /\ (pc = "families" /\ pc' = "resolve") =>
              families' = ExtractFamilies(<<>>, LinesOfKind(IsFamStart))]_vars

(***************************************************************************)
(* Properties of the keys of the maps                                      *)
(***************************************************************************)

\* every key of the map is non-empty, has none of the characters and is the
\* id of its record
KeysAreIds(m, chars) ==
    \A n \in 1..Len(m) :
        /\ m[n][1] /= ""
        /\ \A c \in chars : ~HasChar(m[n][1], c)
        /\ m[n][2].id = m[n][1]

\* C24: every key of the individuals map is non-empty, has no '@' and no
\* 'I', and is the id of its record; every key of the families map is
\* non-empty, has no '@' and no 'F', and is the id of its record.
C24_KeysAreStrippedIds ==
    /\ KeysAreIds(individuals, {"@", "I"})
    /\ KeysAreIds(families, {"@", "F"})

\* the identifier I@F gives individual F and family I; the identifier @I@
\* gives no individual
C24_Witness ==
    /\ pc = "done"
    /\ \/ /\ lines[1] = "0 I@F INDI"
          /\ MapKeys(individuals) = {"F"}
          /\ MapKeys(families) = {"I"}
       \/ /\ lines[1] = "0 @I@ INDI"
          /\ individuals = <<>>
          /\ MapKeys(families) = {"I"}

(***************************************************************************)
(* Properties of what _resolve_relationships changes                       *)
(***************************************************************************)

\* the fields the two passes over the lines fill
ExtractedFields ==
    {"id", "name", "gender", "birth", "death", "occupation", "notes", "media",
     "families_as_child", "families_as_spouse"}

\* the fields _resolve_relationships fills
ResolvedFields == {"parents", "spouse", "children"}

\* C25: _resolve_relationships changes the parents, spouse and children of
\* the individuals and nothing else: the families, the keys of the
\* individuals and their other fields stay as they are; the lists it leaves
\* hold no empty string; and run again on what it leaves it leaves the same.
C25_ResolverChangesOnlyDerivedFields ==
    [][pc = "resolve" =>
          /\ families' = families
          /\ Len(individuals') = Len(individuals)
          /\ \A n \in 1..Len(individuals) :
                /\ individuals'[n][1] = individuals[n][1]
                /\ DOMAIN individuals'[n][2] \subseteq ExtractedFields \cup ResolvedFields
                /\ \A field \in ExtractedFields :
                      individuals'[n][2][field] = individuals[n][2][field]
          /\ (pc' = "return" /\ error' = "") =>
                /\ \A n \in 1..Len(individuals') : \A field \in ResolvedFields :
                      \A k \in 1..Len(individuals'[n][2][field]) :
                          individuals'[n][2][field][k] /= ""
                /\ ResolveRelationships(individuals', families') = individuals']_vars

\* the resolver has run and has given individual 1 a parent, a spouse and a
\* child
C25_Witness ==
    /\ pc = "done"
    /\ error = ""
    /\ MapHas(individuals, "1")
    /\ MapGet(individuals, "1").parents /= <<>>
    /\ MapGet(individuals, "1").spouse /= <<>>
    /\ MapGet(individuals, "1").children /= <<>>

====
